---- MODULE Spec2Model ----
(***************************************************************************)
(* A model of redux-lite's state-update engine: the deep-equality check,   *)
(* the reducer, the provider's dispatch pipeline (stateRef, useReducer     *)
(* queue, middleware composition) over an explicit heap of JavaScript      *)
(* objects, so that reference identity (===) and structural equality are   *)
(* different things.                                                       *)
(***************************************************************************)
EXTENDS Integers, Sequences, FiniteSets, TLC

VARIABLES
    heap,        \* the JavaScript heap: a sequence of objects, address = index
    pc,          \* position of the driving program
    stateRef,    \* provider.tsx: stateRef.current (in SpecReducer: the reducer's input state)
    call,        \* the last reducer call: input state, action, result, heap size before
    initialState, \* provider.tsx: finalInitialState, the state useReducer starts from
    rendered,    \* provider.tsx: `state`, what useReducer returned at the last render
    queue,       \* the actions handed to useReducer's dispatch and not yet rendered
    middlewares, \* options.middlewares: whether it is given, and the declared sequence
    dispatched,  \* number of dispatcher calls made so far
    sent,        \* the action of the last dispatcher call
    ret,         \* what the provider's dispatch returned for it
    before,      \* stateRef.current when the last dispatcher call was made
    eager,       \* stateRef.current just before the last render overwrote it
    inputs,      \* per queued action, the state internalDispatch handed to the reducer
    log,         \* what the middlewares and the base dispatch saw during the last call
    thrown,      \* whether the last dispatcher call ended with an exception at its caller
    subscriber,  \* a component under the provider that calls useSelector
    extra,       \* a component rendered once more, under the provider or under none
    storeDefinition, \* index.tsx: the object handed to initiate
    baseState,   \* index.tsx: initialState = createInitialState(storeDefinition)
    initStore,   \* the initStore prop of ReduxLiteProvider (undefined when not given)
    comparison,  \* one call of isEqual: its two arguments and what it returned
    devTools,    \* devTools.ts: the option, the extension, the two refs, and the sink's calls
    second,      \* a second provider instance made by the same initiate call
    storeObject, \* hook.ts: the object useReduxLiteStore builds for a given State
    stack,       \* the call stack of one dispatch: the middleware calls that have not returned
    reductions   \* how many actions the base dispatch took, and how many reducer calls were made

providerVars == <<initialState, rendered, queue, middlewares, dispatched, sent, ret,
                  before, eager, inputs, log, thrown>>
hookVars == <<subscriber, extra>>
factoryVars == <<storeDefinition, baseState, initStore>>
otherVars == <<comparison, second, storeObject, stack>>
vars == <<heap, pc, stateRef, call, providerVars, hookVars, factoryVars, devTools, otherVars,
          reductions>>

(***************************************************************************)
(* Bounds of the model.                                                    *)
(***************************************************************************)
MaxNum == 1          \* numbers a caller stores or dispatches: 0..MaxNum
MaxDispatches == 2   \* dispatcher calls in one behaviour
MaxMiddlewares == 2  \* length of options.middlewares
MaxPasses == 3       \* passes React makes over a component that sets state while rendering

(***************************************************************************)
(* JavaScript values. A value is a pair <<tag, n>>: a number, undefined,   *)
(* null, a reference to a heap object, or a function (an updater).         *)
(***************************************************************************)
Num(n) == <<"number", n>>
Undef == <<"undefined", 0>>
Null == <<"null", 0>>
Ref(a) == <<"ref", a>>

UpdaterNames == {"fn_inc", "fn_fromCount"}
Fn(name) == <<name, 0>>

IsFunction(v) == v[1] \in UpdaterNames
\* typeof v === 'object' && v !== null
IsObject(v) == v[1] = "ref"

EmptyProps == [k \in {} |-> Undef]

\* a heap object: its constructor, its own enumerable properties, and its
\* internal slot (the time value of a Date)
Obj(props) == [kind |-> "Object", props |-> props, internal |-> 0]
Arr(props) == [kind |-> "Array", props |-> props, internal |-> 0]

Alloc(h, o) == [heap |-> Append(h, o), ref |-> Ref(Len(h) + 1)]

IsArray(h, v) == IsObject(v) /\ h[v[2]].kind = "Array"

\* own enumerable properties, as the object spread {...v} copies them
OwnProps(h, v) == IF IsObject(v) THEN h[v[2]].props ELSE EmptyProps

\* v[k]: undefined when k is not an own property
Get(h, v, k) ==
    IF IsObject(v) /\ k \in DOMAIN h[v[2]].props THEN h[v[2]].props[k] ELSE Undef

\* the spread written the wrong way round: {...q, ...p}
MergePropsOldWins(p, q) ==
    [k \in (DOMAIN p) \cup (DOMAIN q) |-> IF k \in DOMAIN p THEN p[k] ELSE q[k]]

\* {...p, ...q}
MergeProps(p, q) ==
    [k \in (DOMAIN p) \cup (DOMAIN q) |-> IF k \in DOMAIN q THEN q[k] ELSE p[k]]

\* the spread of p forgotten: {[k]: v}
WithPropOnly(p, k, v) == [j \in {k} |-> v]

\* {...p, [k]: v}
WithProp(p, k, v) ==
    [j \in (DOMAIN p) \cup {k} |-> IF j = k THEN v ELSE p[j]]

\* Object.keys(o): the enumeration order (index keys first)
KeyOrder == <<"0", "1", "a", "b", "count", "list", "task", "user">>
InDomain(p, k) == k \in DOMAIN p
Keys(p) == SelectSeq(KeyOrder, LAMBDA k : InDomain(p, k))

(***************************************************************************)
(* utils.ts: isEqual(objA, objB, seen = new WeakSet()). The WeakSet is one *)
(* object shared by every recursive call, so the model threads it through  *)
(* the recursion and returns it with the verdict.                          *)
(***************************************************************************)
RECURSIVE isEqualSeen(_, _, _, _)
RECURSIVE isEqualProps(_, _, _, _, _, _)

\* the loop over keysA (and, for arrays, over the indices): stops at the
\* first key that objB lacks or whose values differ
isEqualProps(h, pa, pb, ks, i, seen) ==
    IF i > Len(ks) THEN [res |-> TRUE, seen |-> seen]
    ELSE IF ~InDomain(pb, ks[i]) THEN [res |-> FALSE, seen |-> seen]
    ELSE LET r == isEqualSeen(h, pa[ks[i]], pb[ks[i]], seen)
         IN  IF ~r.res THEN r ELSE isEqualProps(h, pa, pb, ks, i + 1, r.seen)

\* a check that takes an object met again for equal to whatever it is compared with
circularVerdictEqual == TRUE

\* what the call returns when seen.has(objA): "Circular reference detected"
circularVerdict == FALSE

isEqualSeen(h, a, b, seen) ==
    IF a = b THEN [res |-> TRUE, seen |-> seen]
    ELSE IF IsObject(a) /\ IsObject(b)
    THEN IF a[2] \in seen THEN [res |-> circularVerdict, seen |-> seen]
         ELSE LET seen1 == seen \cup {a[2]}
                  oa == h[a[2]]
                  ob == h[b[2]]
              IN  IF oa.kind # ob.kind THEN [res |-> FALSE, seen |-> seen1]
                  ELSE IF oa.kind = "Date"
                  THEN [res |-> oa.internal = ob.internal, seen |-> seen1]
                  ELSE IF Cardinality(DOMAIN oa.props) # Cardinality(DOMAIN ob.props)
                  THEN [res |-> FALSE, seen |-> seen1]
                  ELSE isEqualProps(h, oa.props, ob.props, Keys(oa.props), 1, seen1)
    ELSE [res |-> FALSE, seen |-> seen]

\* an isEqual that takes null and undefined for equal, as == does
isEqualLoose(h, a, b) == isEqualSeen(h, a, b, {}).res \/ {a, b} \subseteq {Undef, Null}

isEqual(h, a, b) == isEqualSeen(h, a, b, {}).res

(***************************************************************************)
(* Updater functions a caller passes as payload (index.test.tsx:87, :150). *)
(*   fn_inc:       c => c + 1                                              *)
(*   fn_fromCount: (user, fullStore) => ({ a: fullStore.count })           *)
(* Each returns the heap after the call and the value returned.            *)
(***************************************************************************)
ApplyUpdater(h, payload, oldSlice, state) ==
    IF payload[1] = "fn_inc"
    THEN [heap |-> h, val |-> Num(oldSlice[2] + 1)]
    ELSE LET n == Alloc(h, Obj([k \in {"a"} |-> Get(h, state, "count")]))
         IN  [heap |-> n.heap, val |-> n.ref]

(***************************************************************************)
(* reducer.ts: reducer(state, action). The result is the heap after the    *)
(* call and the reference returned.                                        *)
(***************************************************************************)
\* a reducer that writes the new slice into the state object it was given:
\* state[action.type] = newSlice; return state
reducerInPlace(h, state, action) ==
    LET oldSlice == Get(h, state, action.type)
        r == IF IsFunction(action.payload)
             THEN ApplyUpdater(h, action.payload, oldSlice, state)
             ELSE [heap |-> h, val |-> action.payload]
    IN  [heap |-> [r.heap EXCEPT ![state[2]].props = WithProp(@, action.type, r.val)],
         state |-> state]

reducer(h, state, action) ==
    LET oldSlice == Get(h, state, action.type)
        r == IF IsFunction(action.payload)
             THEN ApplyUpdater(h, action.payload, oldSlice, state)
             ELSE [heap |-> h, val |-> action.payload]
        newSlice == r.val
        h1 == r.heap
        replaced == Alloc(h1, Obj(WithProp(h1[state[2]].props, action.type, newSlice)))
    IN  IF action.isPartial /\ IsObject(oldSlice) /\ ~IsArray(h1, oldSlice) /\ IsObject(newSlice)
        THEN LET m == Alloc(h1, Obj(MergeProps(OwnProps(h1, oldSlice), OwnProps(h1, newSlice))))
                 merged == Alloc(m.heap, Obj(WithProp(m.heap[state[2]].props, action.type, m.ref)))
             IN  IF isEqual(m.heap, oldSlice, m.ref)
                 THEN [heap |-> m.heap, state |-> state]
                 ELSE [heap |-> merged.heap, state |-> merged.ref]
        ELSE IF isEqual(h1, oldSlice, newSlice)
             THEN [heap |-> h1, state |-> state]
             ELSE [heap |-> replaced.heap, state |-> replaced.ref]

(***************************************************************************)
(* Structural equality of two values: what "deeply equal" means. It is the *)
(* yardstick the claims are stated with, not a model of any code.          *)
(***************************************************************************)
RECURSIVE DeepEq(_, _, _)
RECURSIVE DeepEqProps(_, _, _)

DeepEqProps(h, p, q) ==
    /\ DOMAIN p = DOMAIN q
    /\ \A k \in DOMAIN p : DeepEq(h, p[k], q[k])

DeepEq(h, a, b) ==
    \/ a = b
    \/ /\ IsObject(a)
       /\ IsObject(b)
       /\ h[a[2]].kind = h[b[2]].kind
       /\ h[a[2]].internal = h[b[2]].internal
       /\ DeepEqProps(h, h[a[2]].props, h[b[2]].props)

(***************************************************************************)
(* What a caller can write as the argument of a dispatcher: a value, the   *)
(* slice it read from the store, or an object or array literal whose       *)
(* members are numbers, undefined, the object nested in the user slice, or *)
(* one of two fresh objects the caller made beforehand: {a: 1}, a copy of  *)
(* the nested object, and {b: 0}.                                          *)
(***************************************************************************)
Absent == <<"absent", 0>>
Nested == <<"nested", 0>>
Fresh(i) == <<"fresh", i>>

Numbers == {Num(n) : n \in 0..MaxNum}
Members == {Absent, Undef, Nested, Fresh(1), Fresh(2)} \cup Numbers

Literals ==
    [kind : {"Object"}, a : Members, b : Members]
        \cup [kind : {"Array"}, a : Members, b : {Absent}]

Payloads ==
    [kind : {"value"}, a : Numbers \cup {Undef, Null}, b : {Absent}]
        \cup [kind : {"current"}, a : {Absent}, b : {Absent}]
        \cup Literals

\* the value of a member of a literal, given the heap size before the two
\* fresh objects were made
MemberVal(h, state, m, base) ==
    IF m[1] = "nested" THEN Get(h, Get(h, state, "user"), "b")
    ELSE IF m[1] = "fresh" THEN Ref(base + m[2])
    ELSE m

LiteralProps(h, state, p, base) ==
    LET ka == IF p.kind = "Array" THEN "0" ELSE "a"
        present == (IF p.a = Absent THEN {} ELSE {ka}) \cup (IF p.b = Absent THEN {} ELSE {"b"})
    IN  [k \in present |-> IF k = ka THEN MemberVal(h, state, p.a, base)
                                      ELSE MemberVal(h, state, p.b, base)]

\* the caller evaluates its argument: the heap afterwards and the value
EvalPayload(h, state, type, p) ==
    LET h2 == Append(Append(h, Obj([k \in {"a"} |-> Num(1)])),
                     Obj([k \in {"b"} |-> Num(0)]))
        props == LiteralProps(h2, state, p, Len(h))
        lit == Alloc(h2, IF p.kind = "Array" THEN Arr(props) ELSE Obj(props))
    IN  IF p.kind \in {"value", "updater"} THEN [heap |-> h, val |-> p.a]
        ELSE IF p.kind = "current" THEN [heap |-> h, val |-> Get(h, state, type)]
        ELSE [heap |-> lit.heap, val |-> lit.ref]

(***************************************************************************)
(* The hooks. A context is what useContext(StoreContext) returns: null     *)
(* (provided is FALSE) under no provider, else the provider's value.       *)
(***************************************************************************)
NoContext == [provided |-> FALSE, state |-> Undef]
Context(state) == [provided |-> TRUE, state |-> state]

\* a check that never finds the context missing
MissingNever(context) == FALSE

\* !context
Missing(context) == ~context.provided

ErrSelector == "useSelector must be used within a ReduxLiteProvider."
ErrStore == "useReduxLiteStore must be used within a ReduxLiteProvider."

\* the selectors a component passes (useSelector.test.tsx:18, :72; README:169):
\*   count:   state => state.count
\*   user:    state => state.user
\*   derived: state => ({ a: state.user.a, b: state.count })
Selectors == {"count", "user", "derived"}

\* a function made by the evaluation of a function expression: another one
\* at every evaluation
Lambda(n) == <<"lambda", n>>

\* one more selector that builds its result at every call, with a function
\* in it:
\*   methods: state => ({ a: state.user.a, b: () => state.count + 1 })
FreshSelectors == {"derived", "methods"}

Select(h, selector, state) ==
    IF selector \in FreshSelectors
    THEN LET n == Alloc(h, Obj([k \in {"a", "b"} |->
                                  IF k = "a" THEN Get(h, Get(h, state, "user"), "a")
                                  ELSE IF selector = "methods" THEN Lambda(Len(h) + 1)
                                  ELSE Get(h, state, "count")]))
         IN  [heap |-> n.heap, val |-> n.ref]
    ELSE [heap |-> h, val |-> Get(h, state, selector)]

\* the equality functions: the default, and (a, b) => a.a === b.a
EqualityFns == {"isEqual", "aEquality"}

\* an equality that knows no other equal values than one and the same
EqualByIdentity(h, equalityFn, left, right) == left = right

Equal(h, equalityFn, left, right) ==
    IF equalityFn = "isEqual" THEN isEqual(h, left, right)
    ELSE Get(h, left, "a") = Get(h, right, "a")

\* useState's cell of a component that has not rendered yet
NoCell == [set |-> FALSE, val |-> Undef]

\* a useSelector that returns what the selector just computed
useSelectorUncached(h, context, selector, equalityFn, cell) ==
    IF Missing(context)
    THEN [heap |-> h, error |-> ErrSelector, cell |-> cell, returned |-> Undef,
          selected |-> 0, again |-> FALSE]
    ELSE LET currentSelectorData == Select(h, selector, context.state)
         IN  [heap |-> currentSelectorData.heap, error |-> "",
              cell |-> [set |-> TRUE, val |-> currentSelectorData.val],
              returned |-> currentSelectorData.val, selected |-> 1, again |-> FALSE]

\* one call of useSelector(selector, equalityFn) by a component whose useState
\* cell is `cell`: the heap afterwards, the error thrown (if any), the cell after
\* setSelectorData, the value returned, how often the selector ran, and whether
\* setSelectorData was called (React then renders the component again)
useSelector(h, context, selector, equalityFn, cell) ==
    IF Missing(context)
    THEN [heap |-> h, error |-> ErrSelector, cell |-> cell, returned |-> Undef,
          selected |-> 0, again |-> FALSE]
    ELSE LET currentSelectorData == Select(h, selector, context.state)
             selectorData == IF cell.set THEN cell.val ELSE currentSelectorData.val
             changed == ~Equal(currentSelectorData.heap, equalityFn, selectorData,
                               currentSelectorData.val)
         IN  [heap |-> currentSelectorData.heap, error |-> "",
              cell |-> [set |-> TRUE,
                        val |-> IF changed THEN currentSelectorData.val ELSE selectorData],
              returned |-> selectorData, selected |-> 1, again |-> changed]

\* one call of useReduxLiteStore(): the dispatchers useMemo creates, two per
\* key of the state, and the object returned, {...context.state, ...dispatchers}
useReduxLiteStore(h, context) ==
    IF Missing(context)
    THEN [heap |-> h, error |-> ErrStore, dispatchers |-> {}, returned |-> Undef]
    ELSE LET n == Alloc(h, Obj(OwnProps(h, context.state)))
         IN  [heap |-> n.heap, error |-> "",
              dispatchers |-> [isPartial : BOOLEAN, type : DOMAIN OwnProps(h, context.state)],
              returned |-> n.ref]

NoSubscriber ==
    [mounted |-> FALSE, selector |-> "", equalityFn |-> "", cell |-> NoCell,
     returned |-> Undef, renders |-> 0, error |-> ""]

\* React renders a component that calls useSelector: the component function
\* runs, and runs again while it called setSelectorData during the pass
RECURSIVE RenderComponent(_, _, _, _)
RenderComponent(h, context, comp, pass) ==
    LET r == useSelector(h, context, comp.selector, comp.equalityFn, comp.cell)
        c == [comp EXCEPT !.cell = r.cell, !.returned = r.returned, !.renders = @ + 1]
    IN  IF ~r.again THEN [heap |-> r.heap, comp |-> c]
        ELSE IF pass >= MaxPasses
        THEN [heap |-> r.heap, comp |-> [c EXCEPT !.error = "Too many re-renders."]]
        ELSE RenderComponent(r.heap, context, c, pass + 1)

NoExtra ==
    [hook |-> "none", provided |-> FALSE, error |-> "", selected |-> 0, dispatchers |-> {},
     returned |-> Undef]

(***************************************************************************)
(* SpecReducer: the reducer as a pure function. Init draws a store         *)
(* definition; ReduceCall draws an action and applies the reducer once.    *)
(***************************************************************************)
NoAction == [type |-> "", payload |-> Undef, isPartial |-> FALSE]
NoCall == [state |-> Undef, action |-> NoAction, result |-> Undef, base |-> 0]

\* no call of isEqual made
NoComparison == [objA |-> Undef, objB |-> Undef, returned |-> FALSE]

\* a provider without the devTools option, in a window without the extension:
\* devToolsRef.current and lastActionRef.current are null (NoAction), the sink
\* has seen no call, and the provider's parent has not rendered it again
NoDevTools ==
    [option |-> FALSE, extension |-> FALSE, ref |-> FALSE, lastAction |-> NoAction,
     connects |-> 0, inits |-> <<>>, sends |-> <<>>, rerenders |-> 0]

\* no second provider mounted
NoSecond == [mounted |-> FALSE, initStore |-> Undef, state |-> Undef, stateRef |-> Undef,
             queue |-> <<>>]

\* no action has reached the base dispatch and the reducer has not been called
NoReductions == [based |-> 0, reduced |-> 0]

\* useReduxLiteStore not called
NoStore == [keys |-> <<>>, props |-> <<>>]

\* an optional slice declared with an object of its own: optional({a: 1})
Defined == <<"defined", 0>>

\* createInitialState of { user: {a: x, b: d}, count: 0, task: t, list: [1] }
\* with d = {a: 1}; x is 0 or (shared) d itself, t is undefined, null or an
\* object of its own
InitialHeap(shared, t) ==
    LET d == Alloc(<<>>, Obj([k \in {"a"} |-> Num(1)]))
        user == Alloc(d.heap, Obj([k \in {"a", "b"} |->
                                      IF k = "a" /\ ~shared THEN Num(0) ELSE d.ref]))
        list == Alloc(user.heap, Arr([k \in {"0"} |-> Num(1)]))
        task == IF t = Defined THEN Alloc(list.heap, Obj([k \in {"a"} |-> Num(1)]))
                ELSE [heap |-> list.heap, ref |-> t]
    IN  Alloc(task.heap,
              Obj([k \in {"user", "count", "task", "list"} |->
                      CASE k = "user" -> user.ref
                        [] k = "count" -> Num(0)
                        [] k = "task" -> task.ref
                        [] OTHER -> list.ref]))

InitReducer ==
    /\ \E shared \in BOOLEAN, t \in {Undef, Null, Defined} :
          /\ heap = InitialHeap(shared, t).heap
          /\ stateRef = InitialHeap(shared, t).ref
    /\ pc = "ready"
    /\ call = NoCall
    /\ initialState = stateRef
    /\ rendered = stateRef
    /\ queue = <<>>
    /\ middlewares = [defined |-> FALSE, list |-> <<>>]
    /\ dispatched = 0
    /\ sent = NoAction
    /\ ret = NoAction
    /\ before = stateRef
    /\ eager = stateRef
    /\ inputs = <<>>
    /\ log = <<>>
    /\ thrown = FALSE
    /\ subscriber = NoSubscriber
    /\ extra = NoExtra
    /\ stack = <<>>
    /\ reductions = NoReductions
    /\ storeDefinition = Undef
    /\ baseState = initialState
    /\ initStore = Undef
    /\ devTools = NoDevTools
    /\ comparison = NoComparison
    /\ second = NoSecond
    /\ storeObject = NoStore

StateKeys(h, state) == DOMAIN h[state[2]].props

ReduceWith(type, payload, isPartial) ==
    LET action == [type |-> type, payload |-> payload.val, isPartial |-> isPartial]
        r == reducer(payload.heap, stateRef, action)
    IN  /\ heap' = r.heap
        /\ call' = [state |-> stateRef, action |-> action, result |-> r.state,
                    base |-> Len(payload.heap)]
        /\ stateRef' = r.state
        /\ pc' = "done"
        /\ UNCHANGED <<providerVars, hookVars, factoryVars, devTools, otherVars,
                   reductions>>

\* dispatch<Key>(value or literal) and dispatchPartial<Key>(value or literal)
ReduceValue ==
    /\ pc = "ready"
    /\ \E type \in StateKeys(heap, stateRef), p \in Payloads, isPartial \in BOOLEAN :
          ReduceWith(type, EvalPayload(heap, stateRef, type, p), isPartial)

\* dispatchCount(c => c + 1), dispatch[Partial]User((user, fullStore) => ...)
ReduceUpdater ==
    /\ pc = "ready"
    /\ \E isPartial \in BOOLEAN :
          \/ ReduceWith("count", [heap |-> heap, val |-> Fn("fn_inc")], isPartial)
          \/ ReduceWith("user", [heap |-> heap, val |-> Fn("fn_fromCount")], isPartial)

NextReducer == ReduceValue \/ ReduceUpdater

SpecReducer == InitReducer /\ [][NextReducer]_vars

(***************************************************************************)
(* provider.tsx: useCreateReducer. A dispatch runs to completion, so the   *)
(* whole pipeline is one step; ctx carries what the call chain reads and   *)
(* writes: the heap, stateRef.current, the rendered `state`, useReducer's  *)
(* queue, and what was observed on the way.                                *)
(***************************************************************************)
Event(ev, mw, action, seenBefore, seenState) ==
    [ev |-> ev, mw |-> mw, action |-> action, before |-> seenBefore, state |-> seenState]

\* an internalDispatch that reads the `state` of the render's closure
internalDispatchStale(ctx, action) ==
    LET newState == reducer(ctx.heap, ctx.rendered, action)
    IN  [ctx EXCEPT !.heap = newState.heap,
                    !.stateRef = newState.state,
                    !.queue = Append(@, action),
                    !.inputs = Append(@, ctx.rendered),
                    !.log = Append(@, Event("base", 0, action, ctx.rendered, newState.state)),
                    !.ret = action]

\* a base dispatch that closes over the action the caller handed to
\* enhancedDispatch and applies that one, whatever next was called with
internalDispatchOriginal(ctx, action) ==
    LET original == IF ctx.log # <<>> THEN ctx.log[1].action ELSE action
        newState == reducer(ctx.heap, ctx.stateRef, original)
    IN  [ctx EXCEPT !.heap = newState.heap,
                    !.stateRef = newState.state,
                    !.queue = Append(@, original),
                    !.inputs = Append(@, ctx.stateRef),
                    !.log = Append(@, Event("base", 0, original, ctx.stateRef, newState.state)),
                    !.ret = original]

\* internalDispatch: reduce eagerly into stateRef.current, hand the action to
\* useReducer's dispatch, return the action
internalDispatch(ctx, action) ==
    LET newState == reducer(ctx.heap, ctx.stateRef, action)
    IN  [ctx EXCEPT !.heap = newState.heap,
                    !.stateRef = newState.state,
                    !.queue = Append(@, action),
                    !.inputs = Append(@, ctx.stateRef),
                    !.log = Append(@, Event("base", 0, action, ctx.stateRef, newState.state)),
                    !.ret = action]

\* a getState that returns the `state` of the render's closure
getStateStale(ctx) == ctx.rendered

\* middlewareAPI.getState
getState(ctx) == ctx.stateRef

(***************************************************************************)
(* compose(...funcs)(next). A handler is the sequence of the middlewares   *)
(* an action passes before the base dispatch, outermost first; funcs[i]    *)
(* applied to a handler puts itself in front of it.                        *)
(***************************************************************************)
Wrap(f, handler) == <<f>> \o handler

RECURSIVE composeFrom(_, _, _)
\* funcs.reduce((a, b) => (...args) => a(b(...args))) applied to next, where a
\* is the composition of funcs[1..n-1] and b is funcs[n]
composeFrom(funcs, n, next) ==
    IF n = 1 THEN Wrap(funcs[1], next)
    ELSE composeFrom(funcs, n - 1, Wrap(funcs[n], next))

RECURSIVE composeReversedFrom(_, _, _)
composeReversedFrom(funcs, n, next) ==
    IF n = Len(funcs) THEN Wrap(funcs[n], next)
    ELSE composeReversedFrom(funcs, n + 1, Wrap(funcs[n], next))

\* a compose that applies the functions left to right: b(a(...args))
composeLeftToRight(funcs, next) == composeReversedFrom(funcs, 1, next)

compose(funcs, next) ==
    IF Len(funcs) = 1 THEN Wrap(funcs[1], next) ELSE composeFrom(funcs, Len(funcs), next)

(***************************************************************************)
(* The middlewares of the tests and the README:                            *)
(*   logger:       reads getState, calls next(action), reads getState      *)
(*   modifier:     calls next({...action, payload: <constant>})            *)
(*   redispatcher: if (action.type === 'user') api.dispatch(<count action>)*)
(*                 and then next(action)                                   *)
(* Each one records what getState returns before and after its next call.  *)
(* And the middlewares that do not hand on what they are given:            *)
(*   blocker:      if (action.type === 'user') return action; else         *)
(*                 return next(action)                                     *)
(*   throwBefore:  throws before it calls next                             *)
(*   throwAfter:   calls next(action) and throws when it returns           *)
(* None of them catches an exception of the next it calls.                 *)
(***************************************************************************)
MiddlewareKinds == {"logger", "modifier", "redispatcher"}
InterruptingKinds == {"blocker", "throwBefore", "throwAfter"}

Blocked == "user"

\* a blocker that hands every action on
ShortCircuitsNever(mw, action) == FALSE

\* whether middleware mw returns without calling next
ShortCircuits(mw, action) == mw.kind = "blocker" /\ action.type = Blocked

\* an exception that is caught on the way and dropped
ThrowCaught(ctx) == [ctx EXCEPT !.ret = NoAction]

\* a throw statement: the call ends without a return value
Throw(ctx) == [ctx EXCEPT !.thrown = TRUE, !.ret = NoAction]

Redispatched == [type |-> "count", payload |-> Fn("fn_inc"), isPartial |-> FALSE]

RECURSIVE CallHandler(_, _, _, _)

\* an api.dispatch that hands the action to the caller's own next
apiDispatchToNext(handler, i, ctx, action) == CallHandler(handler, i + 1, ctx, action)

\* middlewareAPI.dispatch: composedMiddlewareDispatch(action)
apiDispatch(handler, i, ctx, action) == CallHandler(handler, 1, ctx, action)

\* the i-th function of the handler called with action; past the last one it
\* is baseMiddlewareDispatch
CallHandler(handler, i, ctx, action) ==
    IF i > Len(handler) THEN internalDispatch(ctx, action)
    ELSE LET mw == handler[i]
             entered == [ctx EXCEPT !.log =
                            Append(@, Event("pre", mw.id, action, Undef, getState(ctx)))]
             inner == IF mw.kind = "redispatcher" /\ action.type = "user"
                      THEN apiDispatch(handler, i, entered, Redispatched)
                      ELSE entered
             passed == IF mw.kind = "modifier"
                       THEN [action EXCEPT !.payload = Num(MaxNum)]
                       ELSE action
             result == CallHandler(handler, i + 1, inner, passed)
             left == [result EXCEPT !.log =
                         Append(@, Event("post", mw.id, passed, Undef, getState(result)))]
         IN  IF ShortCircuits(mw, action)
             THEN [entered EXCEPT !.ret = action]
             ELSE IF mw.kind = "throwBefore" THEN Throw(entered)
             ELSE IF inner.thrown THEN inner
             ELSE IF result.thrown THEN result
             ELSE IF mw.kind = "throwAfter" THEN Throw(result)
             ELSE left

\* middlewares.map(m => m(middlewareAPI)): each function with its declared position
Funcs(list) == [i \in 1..Len(list) |-> [id |-> i, kind |-> list[i]]]

\* an enhancedDispatch without the test for no middlewares: compose's reduce
\* of an empty array throws, and nothing is dispatched
enhancedDispatchUnguarded(mws, ctx, action) ==
    IF Len(mws.list) = 0 THEN [ctx EXCEPT !.ret = NoAction]
    ELSE CallHandler(compose(Funcs(mws.list), <<>>), 1, ctx, action)

\* enhancedDispatch: internalDispatch itself when there are no middlewares
enhancedDispatch(mws, ctx, action) ==
    IF ~mws.defined \/ Len(mws.list) = 0 THEN internalDispatch(ctx, action)
    ELSE CallHandler(compose(Funcs(mws.list), <<>>), 1, ctx, action)

\* useReducer at a render: the queued actions applied in order to its state
RECURSIVE ApplyQueue(_, _, _, _)
ApplyQueue(h, s, q, i) ==
    IF i > Len(q) THEN [heap |-> h, state |-> s]
    ELSE LET r == reducer(h, s, q[i]) IN ApplyQueue(r.heap, r.state, q, i + 1)

(***************************************************************************)
(* Spec: one provider instance. Init is the mounted provider; Dispatch is  *)
(* one call of a generated dispatcher; Render is React rendering the       *)
(* provider after dispatches.                                              *)
(***************************************************************************)
SeqsUpTo(S, n) == UNION {[1..m -> S] : m \in 0..n}

Init ==
    /\ heap = InitialHeap(FALSE, Undef).heap
    /\ initialState = InitialHeap(FALSE, Undef).ref
    /\ stateRef = initialState
    /\ rendered = initialState
    /\ queue = <<>>
    /\ \/ middlewares = [defined |-> FALSE, list |-> <<>>]
       \/ \E list \in SeqsUpTo(MiddlewareKinds, MaxMiddlewares) :
             middlewares = [defined |-> TRUE, list |-> list]
    /\ dispatched = 0
    /\ sent = NoAction
    /\ ret = NoAction
    /\ before = initialState
    /\ eager = initialState
    /\ inputs = <<>>
    /\ log = <<>>
    /\ thrown = FALSE
    /\ subscriber = NoSubscriber
    /\ extra = NoExtra
    /\ stack = <<>>
    /\ reductions = NoReductions
    /\ storeDefinition = Undef
    /\ baseState = initialState
    /\ initStore = Undef
    /\ devTools = NoDevTools
    /\ comparison = NoComparison
    /\ second = NoSecond
    /\ storeObject = NoStore
    /\ pc = "mounted"
    /\ call = NoCall

\* the dispatcher calls a component makes (index.test.tsx, middleware.test.tsx)
Value(v) == [kind |-> "value", a |-> v, b |-> Absent]
Updater(name) == [kind |-> "updater", a |-> Fn(name), b |-> Absent]
Current == [kind |-> "current", a |-> Absent, b |-> Absent]
ObjectA(v) == [kind |-> "Object", a |-> v, b |-> Absent]

DispatcherCalls ==
    {[type |-> "count", p |-> Value(Num(MaxNum)), isPartial |-> FALSE],
     [type |-> "count", p |-> Updater("fn_inc"), isPartial |-> FALSE],
     [type |-> "user", p |-> ObjectA(Num(MaxNum)), isPartial |-> TRUE],
     [type |-> "user", p |-> ObjectA(Num(MaxNum)), isPartial |-> FALSE],
     [type |-> "user", p |-> Current, isPartial |-> FALSE],
     [type |-> "user", p |-> Updater("fn_fromCount"), isPartial |-> TRUE]}

\* the calls of internalDispatch during one dispatcher call; each one calls
\* the reducer once (provider.tsx:26)
\* hook.ts: dispatch<Key>(payload) / dispatchPartial<Key>(payload). With the
\* devTools option the context's dispatch is the wrapper of devTools.ts:25-28,
\* which notes the action in lastActionRef, calls the provider's dispatch and
\* returns nothing
Dispatch ==
    /\ dispatched < MaxDispatches
    /\ \E c \in DispatcherCalls :
          LET payload == EvalPayload(heap, rendered, c.type, c.p)
              action == [type |-> c.type, payload |-> payload.val, isPartial |-> c.isPartial]
              ctx == [heap |-> payload.heap, stateRef |-> stateRef, rendered |-> rendered,
                      queue |-> queue, inputs |-> inputs, log |-> <<>>, ret |-> NoAction,
                      thrown |-> FALSE]
              out == enhancedDispatch(middlewares, ctx, action)
          IN  /\ heap' = out.heap
              /\ stateRef' = out.stateRef
              /\ queue' = out.queue
              /\ inputs' = out.inputs
              /\ log' = out.log
              /\ ret' = IF devTools.option /\ ~out.thrown THEN NoAction ELSE out.ret
              /\ thrown' = out.thrown
              /\ sent' = action
              /\ before' = stateRef
              /\ devTools' = IF devTools.option
                             THEN [devTools EXCEPT !.lastAction = action]
                             ELSE devTools
    /\ reductions' = [based |-> reductions.based + Len(queue') - Len(queue),
                      reduced |-> reductions.reduced + Len(queue') - Len(queue)]
    /\ dispatched' = dispatched + 1
    /\ UNCHANGED <<pc, call, initialState, rendered, middlewares, eager, hookVars,
                   factoryVars, otherVars>>

\* devTools.ts:34-38, the effect with the dependency [state]: it runs after a
\* render in which `state` is another object than at the render before, and
\* sends when both refs are set
sendEffect(dt, old, state) ==
    IF state # old /\ dt.ref /\ dt.lastAction # NoAction
    THEN [dt EXCEPT !.sends = Append(@, [action |-> dt.lastAction, state |-> state])]
    ELSE dt

\* React renders the provider: useReducer applies the queue, and
\* stateRef.current = state; when the state is another object than at the last
\* render the context value {state, dispatch} is new, and React renders every
\* component that reads the context; then the effects of devTools.ts run
Render ==
    /\ queue # <<>>
    /\ LET r == ApplyQueue(heap, rendered, queue, 1)
           s == IF subscriber.mounted /\ r.state # rendered
                THEN RenderComponent(r.heap, Context(r.state), subscriber, 1)
                ELSE [heap |-> r.heap, comp |-> subscriber]
       IN  /\ heap' = s.heap
           /\ rendered' = r.state
           /\ stateRef' = r.state
           /\ subscriber' = s.comp
           /\ devTools' = sendEffect(devTools, rendered, r.state)
    /\ reductions' = [reductions EXCEPT !.reduced = @ + Len(queue)]
    /\ eager' = stateRef
    /\ queue' = <<>>
    /\ inputs' = <<>>
    /\ UNCHANGED <<pc, call, initialState, middlewares, dispatched, sent, ret, before, log,
                   thrown, extra, factoryVars, otherVars>>

Next == Dispatch \/ Render

Spec == Init /\ [][Next]_vars

(***************************************************************************)
(* SpecSelector: a provider without middlewares, a component under it that *)
(* calls useSelector and has rendered once, and one more component that is *)
(* rendered once, under the provider or under no provider at all.          *)
(***************************************************************************)
InitSelector ==
    /\ initialState = InitialHeap(FALSE, Undef).ref
    /\ \E selector \in Selectors, equalityFn \in EqualityFns :
          LET mount == RenderComponent(InitialHeap(FALSE, Undef).heap, Context(initialState),
                                       [NoSubscriber EXCEPT !.mounted = TRUE,
                                                            !.selector = selector,
                                                            !.equalityFn = equalityFn], 1)
          IN  /\ heap = mount.heap
              /\ subscriber = mount.comp
    /\ extra = NoExtra
    /\ stack = <<>>
    /\ reductions = NoReductions
    /\ storeDefinition = Undef
    /\ baseState = initialState
    /\ initStore = Undef
    /\ devTools = NoDevTools
    /\ comparison = NoComparison
    /\ second = NoSecond
    /\ storeObject = NoStore
    /\ stateRef = initialState
    /\ rendered = initialState
    /\ queue = <<>>
    /\ middlewares = [defined |-> FALSE, list |-> <<>>]
    /\ dispatched = 0
    /\ sent = NoAction
    /\ ret = NoAction
    /\ before = initialState
    /\ eager = initialState
    /\ inputs = <<>>
    /\ log = <<>>
    /\ thrown = FALSE
    /\ pc = "mounted"
    /\ call = NoCall

Hooks == {"useSelector", "useReduxLiteStore"}

\* React renders a component that calls one of the hooks
RenderExtra ==
    /\ extra.hook = "none"
    /\ \E hook \in Hooks, provided \in BOOLEAN :
          LET context == IF provided THEN Context(rendered) ELSE NoContext
              sel == useSelector(heap, context, "user", "isEqual", NoCell)
              store == useReduxLiteStore(heap, context)
          IN  IF hook = "useSelector"
              THEN /\ heap' = sel.heap
                   /\ extra' = [hook |-> hook, provided |-> provided, error |-> sel.error,
                                selected |-> sel.selected, dispatchers |-> {},
                                returned |-> sel.returned]
              ELSE /\ heap' = store.heap
                   /\ extra' = [hook |-> hook, provided |-> provided, error |-> store.error,
                                selected |-> 0, dispatchers |-> store.dispatchers,
                                returned |-> store.returned]
    /\ UNCHANGED <<pc, stateRef, call, providerVars, subscriber, factoryVars, devTools,
                   otherVars,
                   reductions>>

NextSelector == Dispatch \/ Render \/ RenderExtra

SpecSelector == InitSelector /\ [][NextSelector]_vars

(***************************************************************************)
(* SpecInterrupt: the same provider with a middleware chain in which a     *)
(* middleware may not call next, or may throw.                             *)
(***************************************************************************)
InitInterrupt ==
    /\ heap = InitialHeap(FALSE, Undef).heap
    /\ initialState = InitialHeap(FALSE, Undef).ref
    /\ stateRef = initialState
    /\ rendered = initialState
    /\ queue = <<>>
    /\ \E list \in SeqsUpTo({"logger", "redispatcher"} \cup InterruptingKinds, MaxMiddlewares) :
          /\ \E i \in 1..Len(list) : list[i] \in InterruptingKinds
          /\ middlewares = [defined |-> TRUE, list |-> list]
    /\ dispatched = 0
    /\ sent = NoAction
    /\ ret = NoAction
    /\ before = initialState
    /\ eager = initialState
    /\ inputs = <<>>
    /\ log = <<>>
    /\ thrown = FALSE
    /\ subscriber = NoSubscriber
    /\ extra = NoExtra
    /\ stack = <<>>
    /\ reductions = NoReductions
    /\ storeDefinition = Undef
    /\ baseState = initialState
    /\ initStore = Undef
    /\ devTools = NoDevTools
    /\ comparison = NoComparison
    /\ second = NoSecond
    /\ storeObject = NoStore
    /\ pc = "mounted"
    /\ call = NoCall

SpecInterrupt == InitInterrupt /\ [][Next]_vars

(***************************************************************************)
(* The last reducer call, as the claims speak of it.                       *)
(***************************************************************************)
IsRecord(h, v) == IsObject(v) /\ h[v[2]].kind = "Object"

CallHeap == SubSeq(heap, 1, call.base)
CallOld == Get(heap, call.state, call.action.type)
CallCandidate ==
    IF IsFunction(call.action.payload)
    THEN ApplyUpdater(CallHeap, call.action.payload, CallOld, call.state).val
    ELSE call.action.payload
CallNew == Get(heap, call.result, call.action.type)
\* a partial update proper: both the slice and the candidate are records
CallMerges ==
    call.action.isPartial /\ IsRecord(heap, CallOld) /\ IsRecord(heap, CallCandidate)
CallMergedProps == MergeProps(OwnProps(heap, CallOld), OwnProps(heap, CallCandidate))
CallFresh(v) == IsObject(v) /\ v[2] > call.base

\* C1: whenever the resolved slice value (the candidate, or {...s[k], ...candidate}
\* for a partial update of a record slice with a record) is deeply equal to s[k],
\* the reducer returns the very reference s it was given.
C1_NoOpReturnsSameReference ==
    pc = "done" =>
        ((IF CallMerges
          THEN DeepEqProps(heap, OwnProps(heap, CallOld), CallMergedProps)
          ELSE DeepEq(heap, CallOld, CallCandidate))
            => call.result = call.state)

\* C2: a reducer call returns the reference it was given, or a new top-level
\* object with the same keys in which slice action.type holds the candidate (or,
\* for a partial update, the merged slice) and every other slice is the very
\* value it was in the input state.
C2_ExactlyOneSliceReplaced ==
    pc = "done" =>
        \/ call.result = call.state
        \/ /\ CallFresh(call.result)
           /\ heap[call.result[2]].kind = "Object"
           /\ StateKeys(heap, call.result) = StateKeys(heap, call.state)
           /\ \A k \in StateKeys(heap, call.state) \ {call.action.type} :
                 Get(heap, call.result, k) = Get(heap, call.state, k)
           /\ \/ CallNew = CallCandidate
              \/ /\ call.action.isPartial
                 /\ CallFresh(CallNew)
                 /\ heap[CallNew[2]].kind = "Object"
                 /\ OwnProps(heap, CallNew) = CallMergedProps
           /\ ~call.action.isPartial => CallNew = CallCandidate

C2_Witness ==
    /\ pc = "done"
    /\ call.result # call.state
    /\ call.action.isPartial
    /\ CallNew # CallCandidate
    /\ \E k \in StateKeys(heap, call.state) \ {call.action.type} :
          IsObject(Get(heap, call.state, k))

\* C3: a partial update of record slice v with record payload p yields a slice
\* with exactly the keys of v and p, holding for every key of p the value from p
\* and for every other key of v the very value (same reference) it had in v; a
\* nested object is replaced as a whole when its key is in p, never merged.
C3_PartialUpdateIsShallowMerge ==
    (pc = "done" /\ CallMerges) =>
        LET v == OwnProps(heap, CallOld)
            p == OwnProps(heap, CallCandidate)
            r == OwnProps(heap, CallNew)
        IN  /\ DOMAIN r = (DOMAIN v) \cup (DOMAIN p)
            /\ \A k \in DOMAIN p : DeepEq(heap, r[k], p[k])
            /\ call.result # call.state => \A k \in DOMAIN p : r[k] = p[k]
            /\ \A k \in (DOMAIN v) \ (DOMAIN p) : r[k] = v[k]

\* the nested object under b is replaced by {b: 0} as a whole
C3_Witness ==
    /\ pc = "done"
    /\ CallMerges
    /\ call.result # call.state
    /\ \E k \in DOMAIN OwnProps(heap, CallCandidate) :
          /\ IsObject(Get(heap, CallOld, k))
          /\ IsObject(Get(heap, CallCandidate, k))
          /\ ~DeepEq(heap, Get(heap, CallOld, k), Get(heap, CallCandidate, k))
    /\ \E k \in DOMAIN OwnProps(heap, CallOld) :
          /\ k \notin DOMAIN OwnProps(heap, CallCandidate)
          /\ CallNew # CallOld

\* C4: when isPartial is true and the current slice or the candidate is not a
\* non-null, non-array record, the reducer returns what it returns for the same
\* action with isPartial false.
C4_PartialFallsBackToFull ==
    (pc = "done" /\ call.action.isPartial
        /\ (~IsRecord(heap, CallOld) \/ ~IsRecord(heap, CallCandidate))) =>
        LET full == reducer(CallHeap, call.state, [call.action EXCEPT !.isPartial = FALSE])
        IN  /\ (call.result = call.state) <=> (full.state = call.state)
            /\ CallNew = Get(full.heap, full.state, call.action.type)

(***************************************************************************)
(* The provider's last dispatch, as the claims speak of it.                *)
(***************************************************************************)
Declared == Len(middlewares.list)

\* useReducer's state after the first i queued actions
Folded(i) == ApplyQueue(heap, rendered, SubSeq(queue, 1, i), 1)

BasesBefore(i) == {j \in 1..(i - 1) : log[j].ev = "base"}
LastBase(i) == CHOOSE j \in BasesBefore(i) : \A k \in BasesBefore(i) : k <= j
\* the state committed when the i-th event of the last dispatch happened
Committed(i) == IF BasesBefore(i) = {} THEN before ELSE log[LastBase(i)].state

\* C5: dispatches made without a render in between apply in call order: the
\* reducer of the i-th one (and so its updater) is handed the state produced by
\* the ones before it, the state getState reports is the queue folded over the
\* rendered state, and the render commits a state equal to it.
C5_DispatchesApplyInCallOrder ==
    /\ \A i \in 1..Len(queue) :
          DeepEq(Folded(i - 1).heap, inputs[i], Folded(i - 1).state)
    /\ DeepEq(Folded(Len(queue)).heap, stateRef, Folded(Len(queue)).state)
    /\ DeepEq(heap, eager, rendered)

\* the second of two dispatches in one tick is an updater that was handed a
\* state no render has produced yet
C5_Witness ==
    /\ Len(queue) >= 2
    /\ IsFunction(queue[2].payload)
    /\ inputs[2] # rendered
    /\ ~DeepEq(heap, inputs[2], rendered)
    /\ ~DeepEq(heap, stateRef, inputs[2])

\* C6: the state getState reports and the rendered state always have the key
\* set the store was created with, whatever was dispatched through the
\* generated dispatchers and through a middleware's api.dispatch.
C6_KeySetNeverChanges ==
    /\ StateKeys(heap, stateRef) = StateKeys(heap, initialState)
    /\ StateKeys(heap, rendered) = StateKeys(heap, initialState)

C6_Witness ==
    /\ dispatched >= 2
    /\ rendered # initialState
    /\ stateRef # rendered
    /\ \E i \in 1..Len(log) : log[i].ev = "base" /\ log[i].action = Redispatched

\* C7: of the action a dispatcher sent, the declared middlewares m1..mn see the
\* events m1-pre, ..., mn-pre, base dispatch, mn-post, ..., m1-post in this order.
OwnEvent(e) == e.action.type = sent.type
OwnEvents == SelectSeq(log, OwnEvent)
Onion(n) ==
    [i \in 1..(2 * n + 1) |->
        IF i <= n THEN <<"pre", i>>
        ELSE IF i = n + 1 THEN <<"base", 0>>
        ELSE <<"post", 2 * n + 2 - i>>]

C7_FirstDeclaredIsOutermost ==
    dispatched > 0 =>
        [i \in 1..Len(OwnEvents) |-> <<OwnEvents[i].ev, OwnEvents[i].mw>>] = Onion(Declared)

C7_Witness ==
    /\ dispatched > 0
    /\ Declared >= 2
    /\ stateRef # before
    /\ Len(log) = 2 * Declared + 1

\* C8: what getState returns to a middleware before its next call is the state
\* committed by the dispatches before (not yet this action's effect); what it
\* returns after the next call is the state the base dispatch produced for this
\* action, from the latest committed state, with no render in between.
C8_GetStateIsLatestCommitted ==
    \A i \in 1..Len(log) :
        /\ log[i].ev = "pre" => log[i].state = Committed(i)
        /\ log[i].ev = "base" => log[i].before = Committed(i)
        /\ log[i].ev = "post" =>
              /\ BasesBefore(i) # {}
              /\ log[i].state = log[LastBase(i)].state
              /\ log[LastBase(i)].action.type = log[i].action.type

C8_Witness ==
    /\ Len(queue) >= 2
    /\ \E i \in 1..Len(log), k \in 1..Len(log) :
          /\ i < k
          /\ log[i].ev = "pre"
          /\ log[k].ev = "post"
          /\ log[i].mw = log[k].mw
          /\ log[i].state # rendered
          /\ log[k].state # log[i].state
          /\ ~DeepEq(heap, log[k].state, log[i].state)

\* C9: an action a middleware passes to api.dispatch is next seen by m1, then
\* by m2, ..., mn in declared order, and only then by the base dispatch.
Redispatches(i) ==
    /\ log[i].ev = "pre"
    /\ log[i].action.type = "user"
    /\ middlewares.list[log[i].mw] = "redispatcher"

NoMiddlewares == ~middlewares.defined \/ Len(middlewares.list) = 0

C10_NoMiddlewareIsBaseDispatch ==
    (NoMiddlewares /\ dispatched > 0) =>
        LET direct == reducer(heap, before, sent)
        IN  /\ ret = sent
            /\ Len(log) = 1
            /\ log[1].ev = "base"
            /\ log[1].action = sent
            /\ log[1].before = before
            /\ (log[1].state = before) <=> (direct.state = before)
            /\ DeepEq(direct.heap, log[1].state, direct.state)
            /\ queue # <<>> => (queue[Len(queue)] = sent /\ stateRef = log[1].state)

C10_Witness ==
    /\ middlewares.defined
    /\ Len(middlewares.list) = 0
    /\ Len(queue) >= 2
    /\ ret = sent
    /\ stateRef # before
    /\ before # rendered

(***************************************************************************)
(* The store factory: optional, createInitialState and mergeState. Both    *)
(* functions build their result by assignments to a new object, so the     *)
(* model writes to the heap at the object's address.                       *)
(***************************************************************************)
OPTIONAL_SYMBOL == "@@optional"
True == <<"boolean", 1>>

\* v as a condition: if (v)
Truthy(v) == v \notin {Undef, Null, Num(0)}

\* o[k] = v
SetProp(h, o, k, v) ==
    [h EXCEPT ![o[2]].props = [j \in (DOMAIN @) \cup {k} |-> IF j = k THEN v ELSE @[j]]]

\* optional(initialValue): { [OPTIONAL_SYMBOL]: true, value: initialValue }
optional(h, initialValue) ==
    Alloc(h, Obj([k \in {OPTIONAL_SYMBOL, "value"} |->
                     IF k = OPTIONAL_SYMBOL THEN True ELSE initialValue]))

\* a test that takes every object with a `value` property for an optional marker
IsOptionalLoose(h, value) == IsObject(value) /\ "value" \in DOMAIN OwnProps(h, value)

\* value && value[OPTIONAL_SYMBOL]
IsOptional(h, value) == Truthy(value) /\ Truthy(Get(h, value, OPTIONAL_SYMBOL))

\* the reduce over Object.keys(storeDefinition), from the i-th key on
RECURSIVE unwrapFrom(_, _, _, _, _)
unwrapFrom(h, acc, definition, ks, i) ==
    IF i > Len(ks) THEN [heap |-> h, ref |-> acc]
    ELSE LET value == Get(h, definition, ks[i])
         IN  IF IsOptional(h, value)
             THEN unwrapFrom(SetProp(h, acc, ks[i], Get(h, value, "value")),
                             acc, definition, ks, i + 1)
             ELSE unwrapFrom(SetProp(h, acc, ks[i], value), acc, definition, ks, i + 1)

createInitialState(h, definition) ==
    LET acc == Alloc(h, Obj(EmptyProps))
    IN  unwrapFrom(acc.heap, acc.ref, definition, Keys(OwnProps(h, definition)), 1)

\* newState = base: the same object under another name
AliasOf(h, base) == [heap |-> h, ref |-> base]

\* newState = { ...base }
CopyOf(h, base) == Alloc(h, Obj(OwnProps(h, base)))

\* the test of mergeState without its two Array.isArray parts
BothObjects(h, baseValue, overrideValue) == IsObject(baseValue) /\ IsObject(overrideValue)

\* both values are objects, not null and not arrays
BothRecords(h, baseValue, overrideValue) ==
    /\ IsObject(baseValue)
    /\ ~IsArray(h, baseValue)
    /\ IsObject(overrideValue)
    /\ ~IsArray(h, overrideValue)

\* the loop over the own keys of override, from the i-th key on
RECURSIVE mergeFrom(_, _, _, _, _)
mergeFrom(h, newState, override, ks, i) ==
    IF i > Len(ks) THEN [heap |-> h, ref |-> newState]
    ELSE LET baseValue == Get(h, newState, ks[i])
             overrideValue == Get(h, override, ks[i])
             m == Alloc(h, Obj(MergeProps(OwnProps(h, baseValue), OwnProps(h, overrideValue))))
         IN  IF BothRecords(h, baseValue, overrideValue)
             THEN mergeFrom(SetProp(m.heap, newState, ks[i], m.ref), newState, override, ks, i + 1)
             ELSE mergeFrom(SetProp(h, newState, ks[i], overrideValue), newState, override,
                            ks, i + 1)

mergeState(h, base, override) ==
    LET newState == CopyOf(h, base)
    IN  mergeFrom(newState.heap, newState.ref, override, Keys(OwnProps(h, override)), 1)

(***************************************************************************)
(* SpecFactory: initiate(storeDefinition) and the mount of                 *)
(* <ReduxLiteProvider initStore={...}>. Init draws the store definition    *)
(* and the override.                                                       *)
(***************************************************************************)
\* how each key of the store definition is declared
DefinitionChoices ==
    [user : {"plain", "optional"},
     count : {"plain", "optional"},
     task : {"optional()", "null", "optional(null)", "optional(object)", "lookalike"}]

\* { user: {a: 0, b: d}, count: 0, task: ..., list: [1] } with d = {a: 1}, some
\* values wrapped in optional(...); the look-alike is the plain object {value: 0}
StoreDefinition(c) ==
    LET d == Alloc(<<>>, Obj([k \in {"a"} |-> Num(1)]))
        user == Alloc(d.heap, Obj([k \in {"a", "b"} |-> IF k = "a" THEN Num(0) ELSE d.ref]))
        list == Alloc(user.heap, Arr([k \in {"0"} |-> Num(1)]))
        look == Alloc(list.heap, Obj([k \in {"value"} |-> Num(0)]))
        optUser == optional(look.heap, user.ref)
        optCount == optional(optUser.heap, Num(0))
        optNone == optional(optCount.heap, Undef)
        optNull == optional(optNone.heap, Null)
        optObject == optional(optNull.heap, d.ref)
    IN  Alloc(optObject.heap,
              Obj([k \in {"user", "count", "task", "list"} |->
                      CASE k = "user" -> IF c.user = "optional" THEN optUser.ref ELSE user.ref
                        [] k = "count" -> IF c.count = "optional" THEN optCount.ref ELSE Num(0)
                        [] k = "task" ->
                              CASE c.task = "optional()" -> optNone.ref
                                [] c.task = "null" -> Null
                                [] c.task = "optional(null)" -> optNull.ref
                                [] c.task = "optional(object)" -> optObject.ref
                                [] OTHER -> look.ref
                        [] OTHER -> list.ref]))

\* what an initStore gives for each key, if anything
OverrideChoices ==
    [user : {"absent", "a", "nested", "null", "array", "undefined"},
     count : {"absent", "number"},
     task : {"absent", "undefined", "object"},
     list : {"absent", "array", "object"}]

\* the initStore object: user {a: MaxNum} or {b: {b: 0}} or null or [0] or
\* undefined, count MaxNum, task undefined or {a: 0}, list [0] or {a: 0}
Override(h, o) ==
    LET a == Alloc(h, Obj([k \in {"a"} |-> Num(MaxNum)]))
        inner == Alloc(a.heap, Obj([k \in {"b"} |-> Num(0)]))
        nested == Alloc(inner.heap, Obj([k \in {"b"} |-> inner.ref]))
        array == Alloc(nested.heap, Arr([k \in {"0"} |-> Num(0)]))
        object == Alloc(array.heap, Obj([k \in {"a"} |-> Num(0)]))
        given == {k \in {"user", "count", "task", "list"} : o[k] # "absent"}
        choice == [k \in given |-> o[k]]
    IN  Alloc(object.heap,
              Obj([k \in given |->
                      CASE choice[k] = "a" -> a.ref
                        [] choice[k] = "nested" -> nested.ref
                        [] choice[k] = "array" -> array.ref
                        [] choice[k] = "object" -> object.ref
                        [] choice[k] = "number" -> Num(MaxNum)
                        [] choice[k] = "null" -> Null
                        [] OTHER -> Undef]))

InitFactory ==
    /\ \E c \in DefinitionChoices :
          LET definition == StoreDefinition(c)
          IN  /\ storeDefinition = definition.ref
              /\ \/ heap = definition.heap /\ initStore = Undef
                 \/ \E o \in OverrideChoices :
                       /\ heap = Override(definition.heap, o).heap
                       /\ initStore = Override(definition.heap, o).ref
    /\ pc = "defined"
    /\ baseState = Undef
    /\ initialState = Undef
    /\ stateRef = Undef
    /\ rendered = Undef
    /\ call = NoCall
    /\ queue = <<>>
    /\ middlewares = [defined |-> FALSE, list |-> <<>>]
    /\ dispatched = 0
    /\ sent = NoAction
    /\ ret = NoAction
    /\ before = Undef
    /\ eager = Undef
    /\ inputs = <<>>
    /\ log = <<>>
    /\ thrown = FALSE
    /\ subscriber = NoSubscriber
    /\ extra = NoExtra
    /\ stack = <<>>
    /\ reductions = NoReductions
    /\ devTools = NoDevTools
    /\ comparison = NoComparison
    /\ second = NoSecond
    /\ storeObject = NoStore

\* initiate(storeDefinition)
Initiate ==
    /\ pc = "defined"
    /\ LET r == createInitialState(heap, storeDefinition)
       IN  /\ heap' = r.heap
           /\ baseState' = r.ref
    /\ pc' = "created"
    /\ UNCHANGED <<stateRef, call, providerVars, hookVars, storeDefinition, initStore,
                   devTools, otherVars,
                   reductions>>

\* the first render of <ReduxLiteProvider initStore={initStore}>
Provide ==
    /\ pc = "created"
    /\ LET r == IF Truthy(initStore) THEN mergeState(heap, baseState, initStore)
                ELSE [heap |-> heap, ref |-> baseState]
       IN  /\ heap' = r.heap
           /\ initialState' = r.ref
           /\ rendered' = r.ref
           /\ stateRef' = r.ref
    /\ pc' = "provided"
    /\ UNCHANGED <<call, queue, middlewares, dispatched, sent, ret, before, eager, inputs, log,
                   thrown, hookVars, factoryVars, devTools, otherVars,
                   reductions>>

NextFactory == Initiate \/ Provide

SpecFactory == InitFactory /\ [][NextFactory]_vars

(***************************************************************************)
(* Middlewares that do not hand the action on.                             *)
(***************************************************************************)
KindOf(e) == middlewares.list[e.mw]
IsBase(e) == e.ev = "base"
Bases(l) == SelectSeq(l, IsBase)
BaseActions(l) == [j \in 1..Len(Bases(l)) |-> Bases(l)[j].action]

\* the i-th event is a blocker receiving an action it does not hand on
BlockedIn(l, i) == l[i].ev = "pre" /\ KindOf(l[i]) = "blocker" /\ l[i].action.type = Blocked

\* every event after the i-th comes from further inside the chain
OnlyInnerAfter(l, i) ==
    \A j \in (i + 1)..Len(l) : l[j].ev = "base" \/ l[j].mw > l[i].mw

\* C11: when a middleware handles an action without calling next, no middleware
\* declared after it sees that action and no base dispatch is made for it: the
\* dispatch queues for useReducer only what other base dispatches (of a
\* middleware's api.dispatch) produced, leaves the slice the action addressed as it
\* was, leaves the rendered state as it was and, when nothing else was dispatched,
\* leaves the state getState reports the very same reference.
C11_ShortCircuitNeverReachesReducer ==
    [][(dispatched' = dispatched + 1 /\ \E i \in 1..Len(log') : BlockedIn(log', i)) =>
          /\ \A i \in 1..Len(log') :
                BlockedIn(log', i) =>
                    \A j \in 1..Len(log') \ {i} :
                        log'[j].action.type = Blocked =>
                            (log'[j].ev # "base" /\ log'[j].mw < log'[i].mw)
          /\ queue' = queue \o BaseActions(log')
          /\ \A j \in 1..Len(BaseActions(log')) : BaseActions(log')[j].type # Blocked
          /\ Bases(log') = <<>> => (stateRef' = stateRef /\ queue' = queue)
          /\ Get(heap', stateRef', Blocked) = Get(heap, stateRef, Blocked)
          /\ rendered' = rendered]_vars

\* a blocker with a middleware declared after it swallows an action, after an
\* earlier dispatch went through
C11_Witness ==
    /\ dispatched >= 2
    /\ queue # <<>>
    /\ sent.type = Blocked
    /\ ~thrown
    /\ \E i \in 1..Len(log) : BlockedIn(log, i) /\ log[i].mw < Declared
    /\ stateRef = before
    /\ stateRef # rendered

EnteredThrower(l, i) ==
    l[i].ev = "pre" /\ KindOf(l[i]) \in {"throwBefore", "throwAfter"}

\* the last thing that happened is a middleware throwing before its next call
ThrewBeforeNext(l) ==
    Len(l) > 0 /\ l[Len(l)].ev = "pre" /\ KindOf(l[Len(l)]) = "throwBefore"

\* a middleware threw when its next call had returned: nothing but the chain
\* inside it ran after it was entered, and it never got to its end
ThrewAfterNext(l) ==
    \E i \in 1..Len(l) :
        /\ l[i].ev = "pre"
        /\ KindOf(l[i]) = "throwAfter"
        /\ OnlyInnerAfter(l, i)

\* C12: a dispatcher call ends with an exception at its caller exactly when a
\* throwing middleware was entered; nothing runs after the throw (no middleware
\* outside the throwing one resumes, none inside it that had not run is entered);
\* and when the throw came before the next call no base dispatch was made and
\* the state getState reports, useReducer's queue and the rendered state are as
\* they were.
C12_ThrowReachesCaller ==
    [][dispatched' = dispatched + 1 =>
          /\ thrown' <=> \E i \in 1..Len(log') : EnteredThrower(log', i)
          /\ thrown' =>
                /\ ret' = NoAction
                /\ ThrewBeforeNext(log') \/ ThrewAfterNext(log')
                /\ \A i \in 1..Len(log') :
                      EnteredThrower(log', i) =>
                          \A j \in (i + 1)..Len(log') :
                              ~(log'[j].ev = "post" /\ log'[j].mw <= log'[i].mw
                                    /\ log'[j].action.type = log'[i].action.type)
          /\ (thrown' /\ ThrewBeforeNext(log')) =>
                /\ Bases(log') = <<>>
                /\ stateRef' = stateRef
                /\ queue' = queue
          /\ rendered' = rendered]_vars

\* a middleware declared second throws before its next call, inside the
\* api.dispatch of the middleware declared first
C12_Witness ==
    /\ thrown
    /\ ThrewBeforeNext(log)
    /\ log[Len(log)].mw >= 2
    /\ log[Len(log)].action = Redispatched
    /\ sent.type = "user"
    /\ stateRef = before
    /\ queue = <<>>

(***************************************************************************)
(* The hooks, as the claims speak of them.                                 *)
(***************************************************************************)
\* selector(newState) at a state change, computed on the heap after the change
Derived == Select(heap', subscriber.selector, rendered')
StateChanged == subscriber.mounted /\ rendered' # rendered
\* what useState held for the component before the change
Cached == subscriber.cell.val

\* C13: at every state change the component's cached value is compared with
\* selector(newState) under equalityFn: when they are equal useSelector returns
\* the very reference it had cached and keeps it; when they are unequal the cache
\* is replaced, and the value returned when rendering has settled is the new
\* cache, deeply equal to selector(newState).
C13_SelectorCacheFollowsEquality ==
    [][StateChanged =>
          /\ subscriber'.error = ""
          /\ Equal(Derived.heap, subscriber.equalityFn, Cached, Derived.val) =>
                /\ subscriber'.returned = Cached
                /\ subscriber'.cell.val = Cached
          /\ ~Equal(Derived.heap, subscriber.equalityFn, Cached, Derived.val) =>
                /\ subscriber'.returned = subscriber'.cell.val
                /\ subscriber'.returned # Cached
                /\ DeepEq(Derived.heap, subscriber'.returned, Derived.val)]_vars

\* a derived object was replaced at one state change and, at a later state
\* change that left the derived value equal, returned again as the same reference
C13_Witness ==
    /\ subscriber.mounted
    /\ subscriber.selector = "derived"
    /\ subscriber.equalityFn = "isEqual"
    /\ subscriber.renders >= 4
    /\ subscriber.returned = subscriber.cell.val
    /\ IsObject(subscriber.returned)
    /\ subscriber.returned[2] < rendered[2]
    /\ Get(heap, subscriber.returned, "a") # Num(0)

\* the one slice a selector reads
ReadsOnlySlice == {"count", "user"}

\* C14: a component whose selector reads only slice k is not rendered again by
\* a state change that leaves slice k the very value it was.
C14_OtherSlicesCauseNoRerender ==
    [][(subscriber.mounted /\ subscriber.selector \in ReadsOnlySlice
            /\ Get(heap', rendered', subscriber.selector)
                    = Get(heap, rendered, subscriber.selector))
          => subscriber'.renders = subscriber.renders]_vars

\* C15: a hook called under no provider throws its error ('... must be used
\* within a ReduxLiteProvider.'), the selector has not run, no dispatcher was
\* created, nothing is returned, and the heap and the provider's state are as
\* they were.
C15_HookOutsideProviderThrows ==
    [][(extra.hook = "none" /\ extra'.hook # "none" /\ ~extra'.provided) =>
          /\ extra'.error = (IF extra'.hook = "useSelector" THEN ErrSelector ELSE ErrStore)
          /\ extra'.selected = 0
          /\ extra'.dispatchers = {}
          /\ extra'.returned = Undef
          /\ heap' = heap
          /\ UNCHANGED <<stateRef, rendered, queue, initialState, subscriber>>]_vars

\* useReduxLiteStore threw under no provider, after dispatches under the provider
C15_Witness ==
    /\ extra.hook = "useReduxLiteStore"
    /\ ~extra.provided
    /\ extra.error = ErrStore
    /\ dispatched > 0
    /\ rendered # initialState

(***************************************************************************)
(* The store factory, as the claims speak of it.                           *)
(***************************************************************************)
\* the provider was mounted with an initStore: initialState is
\* mergeState(baseState, initStore)
Merged == pc = "provided" /\ IsObject(initStore)
OverrideKeys == DOMAIN OwnProps(heap, initStore)
BaseSlice(k) == Get(heap, baseState, k)
OverrideSlice(k) == Get(heap, initStore, k)
ResultSlice(k) == Get(heap, initialState, k)
BothAreRecords(k) == IsRecord(heap, BaseSlice(k)) /\ IsRecord(heap, OverrideSlice(k))

\* C16: for a key of override where base and override both hold a record, the
\* result holds a record with the keys of both, override's value (the very
\* reference) under every key of the override's record and base's value under
\* every other key; so an object nested in the override's record stands in the
\* result as it is, with none of the fields of the base's nested object.
C16_MergeStateMergesOneLevel ==
    Merged =>
        \A k \in OverrideKeys :
            BothAreRecords(k) =>
                LET b == OwnProps(heap, BaseSlice(k))
                    o == OwnProps(heap, OverrideSlice(k))
                    r == OwnProps(heap, ResultSlice(k))
                IN  /\ IsRecord(heap, ResultSlice(k))
                    /\ DOMAIN r = (DOMAIN b) \cup (DOMAIN o)
                    /\ \A j \in DOMAIN o : r[j] = o[j]
                    /\ \A j \in (DOMAIN b) \ (DOMAIN o) : r[j] = b[j]
                    /\ \A j \in (DOMAIN b) \cap (DOMAIN o) :
                          (IsObject(b[j]) /\ IsObject(o[j])) =>
                              OwnProps(heap, r[j]) = OwnProps(heap, o[j])

\* user: {b: {b: 0}} over user: {a: 0, b: {a: 1}}: a stays, b.a is gone
C16_Witness ==
    /\ Merged
    /\ "user" \in OverrideKeys
    /\ BothAreRecords("user")
    /\ Get(heap, ResultSlice("user"), "a") = Num(0)
    /\ IsObject(Get(heap, BaseSlice("user"), "b"))
    /\ "a" \in DOMAIN OwnProps(heap, Get(heap, BaseSlice("user"), "b"))
    /\ DOMAIN OwnProps(heap, Get(heap, ResultSlice("user"), "b")) = {"b"}

\* C17: for a key of override where base or override holds a primitive, an
\* array, null or undefined, the result has the key and holds exactly override's
\* value under it: an explicit undefined clears a defined slice, an array
\* replaces an array.
C17_MergeStateReplacesOtherwise ==
    Merged =>
        \A k \in OverrideKeys :
            ~BothAreRecords(k) =>
                /\ k \in DOMAIN OwnProps(heap, initialState)
                /\ ResultSlice(k) = OverrideSlice(k)

\* task: undefined over a task object, and list: [0] over list: [1]
C17_Witness ==
    /\ Merged
    /\ {"task", "list"} \subseteq OverrideKeys
    /\ IsRecord(heap, BaseSlice("task"))
    /\ ResultSlice("task") = Undef
    /\ IsArray(heap, BaseSlice("list"))
    /\ IsArray(heap, ResultSlice("list"))
    /\ ResultSlice("list") # BaseSlice("list")

\* C18: mergeState returns a new top-level object with the keys of base and
\* of override, holding under every key of base that override lacks the very
\* value base holds; no object that existed before the call (base, its slices,
\* override) is changed.
C18_MergeStateLeavesTheRestAlone ==
    [][(pc = "created" /\ pc' = "provided" /\ IsObject(initStore)) =>
          /\ IsObject(initialState')
          /\ initialState'[2] > Len(heap)
          /\ DOMAIN OwnProps(heap', initialState')
                = (DOMAIN OwnProps(heap, baseState)) \cup OverrideKeys
          /\ \A k \in (DOMAIN OwnProps(heap, baseState)) \ OverrideKeys :
                Get(heap', initialState', k) = Get(heap, baseState, k)
          /\ \A a \in 1..Len(heap) : heap'[a] = heap[a]]_vars

\* an override of count alone: the user record of the result is base's
C18_Witness ==
    /\ Merged
    /\ OverrideKeys = {"count"}
    /\ initialState # baseState
    /\ ResultSlice("count") # BaseSlice("count")
    /\ IsObject(ResultSlice("user"))
    /\ ResultSlice("user") = BaseSlice("user")
    /\ ResultSlice("list") = BaseSlice("list")

\* a declared value made by optional(...)
Marked(v) == IsObject(v) /\ OPTIONAL_SYMBOL \in DOMAIN OwnProps(heap, v)

\* C19: the state createInitialState returns has exactly the keys of the store
\* definition; under a key declared with optional(v) it holds v (undefined for
\* optional()), under every other key the declared value itself, be it 0, null
\* or an object that has a `value` property of its own.
C19_InitialStateUnwrapsOptional ==
    pc # "defined" =>
        /\ DOMAIN OwnProps(heap, baseState) = DOMAIN OwnProps(heap, storeDefinition)
        /\ \A k \in DOMAIN OwnProps(heap, storeDefinition) :
              LET declared == Get(heap, storeDefinition, k)
              IN  Get(heap, baseState, k) =
                      (IF Marked(declared) THEN OwnProps(heap, declared)["value"] ELSE declared)

\* optional(0) gives 0, optional() gives undefined, [1] stays the array
C19_Witness ==
    /\ pc = "created"
    /\ Marked(Get(heap, storeDefinition, "count"))
    /\ Get(heap, baseState, "count") = Num(0)
    /\ Marked(Get(heap, storeDefinition, "task"))
    /\ "task" \in DOMAIN OwnProps(heap, baseState)
    /\ Get(heap, baseState, "task") = Undef
    /\ Get(heap, baseState, "list") = Get(heap, storeDefinition, "list")

\* C20: a dispatch of undefined to a slice, by dispatch<Key> or by
\* dispatchPartial<Key>, yields a state that has the key with the value undefined
\* and holds under every other key the very value it held before.
C20_UndefinedClearsTheSlice ==
    (pc = "done" /\ call.action.payload = Undef) =>
        /\ StateKeys(heap, call.result) = StateKeys(heap, call.state)
        /\ call.action.type \in StateKeys(heap, call.result)
        /\ CallNew = Undef
        /\ \A k \in StateKeys(heap, call.state) \ {call.action.type} :
              Get(heap, call.result, k) = Get(heap, call.state, k)

\* dispatchPartialTask(undefined) over a task object
C20_Witness ==
    /\ pc = "done"
    /\ call.action = [type |-> "task", payload |-> Undef, isPartial |-> TRUE]
    /\ IsRecord(heap, Get(heap, call.state, "task"))
    /\ call.result # call.state
    /\ Get(heap, call.result, "task") = Undef
    /\ IsObject(Get(heap, call.result, "user"))

(***************************************************************************)
(* SpecEqual: isEqual as a pure function. Init draws its two arguments     *)
(* from the values of a heap that holds what the tests of utils.test.ts    *)
(* compare and what else the check distinguishes: copies, objects reached  *)
(* by two paths, arrays and the record with the same keys, dates, and      *)
(* objects that hold themselves.                                           *)
(***************************************************************************)
DateAt(t) == [kind |-> "Date", props |-> EmptyProps, internal |-> t]

Graphs ==
    << Obj([k \in {"a"} |-> Num(1)]),                      \*  1: {a: 1}
       Obj([k \in {"a"} |-> Num(1)]),                      \*  2: a copy of 1
       Obj([k \in {"a"} |-> Num(0)]),                      \*  3: {a: 0}
       Obj([k \in {"a", "b"} |-> Ref(1)]),                 \*  4: {a: o1, b: o1}
       Obj([k \in {"a", "b"} |-> Ref(2)]),                 \*  5: {a: o2, b: o2}
       Obj([k \in {"a", "b"} |-> IF k = "a" THEN Ref(1) ELSE Ref(2)]),  \* 6: {a: o1, b: o2}
       Arr([k \in {"0"} |-> Num(1)]),                      \*  7: [1]
       Arr([k \in {"0"} |-> Num(1)]),                      \*  8: [1]
       Arr([k \in {"0", "1"} |-> IF k = "0" THEN Num(1) ELSE Num(0)]),  \* 9: [1, 0]
       Arr([k \in {"0", "1"} |-> IF k = "0" THEN Num(0) ELSE Num(1)]),  \* 10: [0, 1]
       Obj([k \in {"0"} |-> Num(1)]),                      \* 11: {0: 1}
       DateAt(0),                                          \* 12: new Date(0)
       DateAt(0),                                          \* 13: new Date(0)
       DateAt(1),                                          \* 14: new Date(1)
       Obj([k \in {"a"} |-> Ref(15)]),                     \* 15: o.a = o
       Obj([k \in {"a"} |-> Ref(16)]),                     \* 16: p.a = p
       Obj([k \in {"a"} |-> Ref(18)]),                     \* 17: q.a = r
       Obj([k \in {"a"} |-> Ref(17)]),                     \* 18: r.a = q
       Obj(EmptyProps),                                    \* 19: {}
       Arr(EmptyProps),                                    \* 20: []
       Obj([k \in {"b"} |-> Num(1)]),                      \* 21: {b: 1}
       Arr([k \in {"0", "1"} |-> Ref(7)]),                 \* 22: [x, x] with x = [1]
       Arr([k \in {"0", "1"} |-> Ref(8)]),                 \* 23: [y, y] with y = [1]
       Obj([k \in {"a"} |-> Undef]),                       \* 24: {a: undefined}
       Obj([k \in {"a"} |-> Null]),                       \* 25: {a: null}
       Obj([k \in {"a"} |-> Num(1)]),                      \* 26: another copy of 1
       Obj([k \in {"a", "b"} |-> IF k = "a" THEN Ref(2) ELSE Ref(26)]) >>  \* 27: {a: o2, b: o26}

Arguments == {Num(0), Num(1), Undef, Null} \cup {Ref(i) : i \in 1..Len(Graphs)}

InitEqual ==
    /\ heap = Graphs
    /\ \E a \in Arguments, b \in Arguments :
          comparison = [objA |-> a, objB |-> b, returned |-> FALSE]
    /\ pc = "ready"
    /\ stateRef = Undef
    /\ call = NoCall
    /\ initialState = Undef
    /\ rendered = Undef
    /\ queue = <<>>
    /\ middlewares = [defined |-> FALSE, list |-> <<>>]
    /\ dispatched = 0
    /\ sent = NoAction
    /\ ret = NoAction
    /\ before = Undef
    /\ eager = Undef
    /\ inputs = <<>>
    /\ log = <<>>
    /\ thrown = FALSE
    /\ subscriber = NoSubscriber
    /\ extra = NoExtra
    /\ stack = <<>>
    /\ reductions = NoReductions
    /\ storeDefinition = Undef
    /\ baseState = Undef
    /\ initStore = Undef
    /\ devTools = NoDevTools
    /\ second = NoSecond
    /\ storeObject = NoStore

\* isEqual(objA, objB)
Compare ==
    /\ pc = "ready"
    /\ comparison' = [comparison EXCEPT
                      !.returned = isEqual(heap, comparison.objA, comparison.objB)]
    /\ pc' = "compared"
    /\ UNCHANGED <<heap, stateRef, call, providerVars, hookVars, factoryVars, devTools,
                   second, storeObject,
                   stack, reductions>>

SpecEqual == InitEqual /\ [][Compare]_vars

\* the call returns: nothing but Compare is ever to be done, and it is one
\* call that nothing can keep from being made
SpecEqualFair == SpecEqual /\ WF_vars(Compare)

(***************************************************************************)
(* What the values are, apart from the code that compares them.            *)
(***************************************************************************)
Children(h, x) ==
    {h[x].props[k][2] : k \in {j \in DOMAIN h[x].props : IsObject(h[x].props[j])}}

RECURSIVE Closure(_, _, _)
Closure(h, S, n) ==
    IF n = 0 THEN S ELSE Closure(h, S \cup UNION {Children(h, x) : x \in S}, n - 1)

\* the objects reached from object x by one property or more
Descendants(h, x) == Closure(h, Children(h, x), Len(h))

\* no object in the graph of v is reached from itself
CycleFree(h, v) ==
    \/ ~IsObject(v)
    \/ \A x \in {v[2]} \cup Descendants(h, v[2]) : x \notin Descendants(h, x)

\* some object is reached from v by two different paths
Shared(h, v) ==
    /\ IsObject(v)
    /\ \E k1, k2 \in DOMAIN h[v[2]].props :
          /\ k1 # k2
          /\ IsObject(h[v[2]].props[k1])
          /\ h[v[2]].props[k1] = h[v[2]].props[k2]

Compared == pc = "compared"
ObjA == comparison.objA
ObjB == comparison.objB

\* C21: for cycle-free arguments, also ones in which an object is reached by
\* more than one path, isEqual returns true exactly when the two are
\* structurally equal: same kind, dates of the same instant, arrays equal
\* position by position, records with the same keys and equal values
C21_IsEqualIsStructuralEquality ==
    (Compared /\ CycleFree(heap, ObjA) /\ CycleFree(heap, ObjB))
        => (comparison.returned <=> DeepEq(heap, ObjA, ObjB))

\* the same for arguments in which no object is reached twice
C21_Unshared ==
    (Compared /\ CycleFree(heap, ObjA) /\ CycleFree(heap, ObjB)
        /\ ~Shared(heap, ObjA) /\ ~Shared(heap, ObjB))
        => (comparison.returned <=> DeepEq(heap, ObjA, ObjB))

\* C22: every call of isEqual returns, whether its arguments hold cycles or
\* not, and it returns false for two different objects that hold themselves
SelfReferential(h, v) == IsObject(v) /\ v[2] \in Children(h, v[2])

C22_IsEqualReturnsAndCyclesDiffer ==
    <>(/\ Compared
       /\ (SelfReferential(heap, ObjA) /\ SelfReferential(heap, ObjB) /\ ObjA # ObjB)
              => ~comparison.returned)

C22_Witness ==
    /\ Compared
    /\ ObjA = Ref(15)
    /\ ObjB = Ref(16)
    /\ DOMAIN heap[15].props = DOMAIN heap[16].props
    /\ ~comparison.returned

(***************************************************************************)
(* SpecDevTools: a provider made with or without the devTools option, in a *)
(* window with or without the Redux DevTools extension, with or without an *)
(* initStore prop, and with no middleware or one. Init is the provider     *)
(* after its first commit; Rerender is its parent rendering it again.      *)
(***************************************************************************)
MaxRerenders == 1

\* a connect effect that does not look at the option
connectEffectAlways(dt, finalInitialState) ==
    IF ~dt.extension THEN dt
    ELSE [dt EXCEPT !.connects = @ + 1, !.ref = TRUE, !.inits = Append(@, finalInitialState)]

\* devTools.ts:41-52, the body of the effect with the dependencies
\* [initialState, devToolsOptions]
connectEffect(dt, finalInitialState) ==
    IF ~dt.option THEN dt
    ELSE IF ~dt.extension THEN dt
    ELSE [dt EXCEPT !.connects = @ + 1, !.ref = TRUE, !.inits = Append(@, finalInitialState)]

\* devTools.ts:53-55, the cleanup the effect returned when it connected
connectCleanup(dt) == [dt EXCEPT !.ref = FALSE]

\* the effects of one commit: the cleanups of the effects whose dependencies
\* changed, then the effects in the order of their declaration
commitEffects(dt, oldState, state, oldInitial, finalInitialState) ==
    LET cleaned == IF finalInitialState # oldInitial /\ dt.ref THEN connectCleanup(dt) ELSE dt
        sending == sendEffect(cleaned, oldState, state)
    IN  IF finalInitialState # oldInitial THEN connectEffect(sending, finalInitialState)
        ELSE sending

\* <ReduxLiteProvider initStore={{user: {a: 1}, count: 1}}>
InlineOverride == [user |-> "a", count |-> "number", task |-> "absent", list |-> "absent"]

DevToolsChains == {<<>>, <<"modifier">>, <<"blocker">>, <<"redispatcher">>}

\* StoreContextProvider's useMemo: finalInitialState
finalInitialStateOf(h, base, propInitStore) ==
    IF Truthy(propInitStore) THEN mergeState(h, base, propInitStore)
    ELSE [heap |-> h, ref |-> base]

InitDevTools ==
    /\ baseState = InitialHeap(FALSE, Undef).ref
    /\ \E given \in BOOLEAN :
          LET o == IF given THEN Override(InitialHeap(FALSE, Undef).heap, InlineOverride)
                   ELSE [heap |-> InitialHeap(FALSE, Undef).heap, ref |-> Undef]
              final == finalInitialStateOf(o.heap, baseState, o.ref)
          IN  /\ initStore = o.ref
              /\ heap = final.heap
              /\ initialState = final.ref
    /\ \E option \in BOOLEAN, extension \in BOOLEAN :
          devTools = connectEffect([NoDevTools EXCEPT !.option = option,
                                                      !.extension = extension], initialState)
    /\ \E list \in DevToolsChains :
          middlewares = [defined |-> list # <<>>, list |-> list]
    /\ stateRef = initialState
    /\ rendered = initialState
    /\ queue = <<>>
    /\ dispatched = 0
    /\ sent = NoAction
    /\ ret = NoAction
    /\ before = initialState
    /\ eager = initialState
    /\ inputs = <<>>
    /\ log = <<>>
    /\ thrown = FALSE
    /\ subscriber = NoSubscriber
    /\ extra = NoExtra
    /\ stack = <<>>
    /\ reductions = NoReductions
    /\ storeDefinition = Undef
    /\ comparison = NoComparison
    /\ second = NoSecond
    /\ storeObject = NoStore
    /\ pc = "mounted"
    /\ call = NoCall

\* the provider's parent renders again and hands the provider an initStore
\* prop: the object it handed before, or (written inline) a new object with
\* the same content. useReducer applies what is queued; finalInitialState is
\* computed again when the prop is another object
Rerender ==
    /\ devTools.rerenders < MaxRerenders
    /\ \E inline \in BOOLEAN :
          LET o == IF inline /\ initStore # Undef THEN Override(heap, InlineOverride)
                   ELSE [heap |-> heap, ref |-> initStore]
              final == IF o.ref # initStore
                       THEN finalInitialStateOf(o.heap, baseState, o.ref)
                       ELSE [heap |-> o.heap, ref |-> initialState]
              r == ApplyQueue(final.heap, rendered, queue, 1)
              s == IF subscriber.mounted /\ r.state # rendered
                   THEN RenderComponent(r.heap, Context(r.state), subscriber, 1)
                   ELSE [heap |-> r.heap, comp |-> subscriber]
              dt == commitEffects(devTools, rendered, r.state, initialState, final.ref)
          IN  /\ heap' = s.heap
              /\ initStore' = o.ref
              /\ initialState' = final.ref
              /\ rendered' = r.state
              /\ stateRef' = r.state
              /\ subscriber' = s.comp
              /\ devTools' = [dt EXCEPT !.rerenders = @ + 1]
    /\ reductions' = [reductions EXCEPT !.reduced = @ + Len(queue)]
    /\ eager' = stateRef
    /\ queue' = <<>>
    /\ inputs' = <<>>
    /\ UNCHANGED <<pc, call, middlewares, dispatched, sent, ret, before, log, thrown, extra,
                   storeDefinition, baseState, otherVars>>

NextDevTools == Dispatch \/ Render \/ Rerender

SpecDevTools == InitDevTools /\ [][NextDevTools]_vars

(***************************************************************************)
(* The DevTools sink, as the claims speak of it.                           *)
(***************************************************************************)
Enabled == devTools.option /\ devTools.extension
LastSend(dt) == dt.sends[Len(dt.sends)]

\* C23: on a binding with the devTools option the sink is connected once and
\* its init is called exactly once, with the effective initial State (the
\* base with the override merged), whatever renders of the provider follow,
\* also renders that hand it a new override object
C23_InitExactlyOnce ==
    Enabled => /\ devTools.connects = 1
               /\ Len(devTools.inits) = 1
               /\ DeepEq(heap, devTools.inits[1], initialState)

\* C24: every dispatch that reached the reducer causes exactly one send: at
\* the render that takes the queued actions, the sink has received one send
\* for each of them, also for one that left the State as it was and also
\* when several were queued
C24_OneSendPerDispatch ==
    [][(Enabled /\ devTools.ref /\ queue # <<>> /\ queue' = <<>>)
          => Len(devTools'.sends) = Len(devTools.sends) + Len(queue)]_vars

\* C25: whenever the sink receives send(a, s), a is the action the reducer
\* applied (the last one handed to useReducer) and s is the State that came
\* of applying a to the State before it
C25_SendReportsWhatTheReducerApplied ==
    [][devTools'.sends # devTools.sends
          => /\ queue # <<>>
             /\ LastSend(devTools').action = queue[Len(queue)]
             /\ LastSend(devTools').state = rendered'
             /\ LET applied == reducer(heap', inputs[Len(queue)], queue[Len(queue)])
                IN  DeepEq(applied.heap, rendered', applied.state)]_vars

\* C26: on a binding made without the devTools option nothing ever calls
\* connect, init or send, also when the extension is there
C26_DisabledNeverTouchesTheExtension ==
    ~devTools.option => /\ devTools.connects = 0
                        /\ devTools.inits = <<>>
                        /\ devTools.sends = <<>>
                        /\ ~devTools.ref

C26_Witness ==
    /\ ~devTools.option
    /\ devTools.extension
    /\ dispatched = MaxDispatches
    /\ queue = <<>>
    /\ rendered # initialState
    /\ devTools.rerenders > 0
    /\ initStore # Undef
    /\ devTools.connects = 0
    /\ devTools.sends = <<>>

(***************************************************************************)
(* SpecInstances: two <ReduxLiteProvider> elements of one initiate call,   *)
(* each with or without an initStore prop. Both are handed the same        *)
(* initialState object (index.tsx:173, :181) and the same options; each    *)
(* has its own useReducer state, stateRef and queue.                       *)
(***************************************************************************)
InitInstances ==
    /\ baseState = InitialHeap(FALSE, Undef).ref
    /\ middlewares = [defined |-> FALSE, list |-> <<>>]
    /\ \E given1 \in BOOLEAN, given2 \in BOOLEAN :
          LET h0 == InitialHeap(FALSE, Undef).heap
              o1 == IF given1 THEN Override(h0, InlineOverride) ELSE [heap |-> h0, ref |-> Undef]
              final1 == finalInitialStateOf(o1.heap, baseState, o1.ref)
              o2 == IF given2 THEN Override(final1.heap, InlineOverride)
                    ELSE [heap |-> final1.heap, ref |-> Undef]
              final2 == finalInitialStateOf(o2.heap, baseState, o2.ref)
          IN  /\ initStore = o1.ref
              /\ initialState = final1.ref
              /\ second = [mounted |-> TRUE, initStore |-> o2.ref, state |-> final2.ref,
                           stateRef |-> final2.ref, queue |-> <<>>]
              /\ heap = final2.heap
    /\ stateRef = initialState
    /\ rendered = initialState
    /\ queue = <<>>
    /\ dispatched = 0
    /\ sent = NoAction
    /\ ret = NoAction
    /\ before = initialState
    /\ eager = initialState
    /\ inputs = <<>>
    /\ log = <<>>
    /\ thrown = FALSE
    /\ subscriber = NoSubscriber
    /\ extra = NoExtra
    /\ stack = <<>>
    /\ reductions = NoReductions
    /\ storeDefinition = Undef
    /\ devTools = NoDevTools
    /\ comparison = NoComparison
    /\ storeObject = NoStore
    /\ pc = "mounted"
    /\ call = NoCall

\* a dispatcher of a component under the second provider
DispatchSecond ==
    /\ second.mounted
    /\ dispatched < MaxDispatches
    /\ \E c \in DispatcherCalls :
          LET payload == EvalPayload(heap, second.state, c.type, c.p)
              action == [type |-> c.type, payload |-> payload.val, isPartial |-> c.isPartial]
              ctx == [heap |-> payload.heap, stateRef |-> second.stateRef,
                      rendered |-> second.state, queue |-> second.queue, inputs |-> <<>>,
                      log |-> <<>>, ret |-> NoAction, thrown |-> FALSE]
              out == enhancedDispatch(middlewares, ctx, action)
          IN  /\ heap' = out.heap
              /\ second' = [second EXCEPT !.stateRef = out.stateRef, !.queue = out.queue]
    /\ dispatched' = dispatched + 1
    /\ UNCHANGED <<pc, stateRef, call, initialState, rendered, queue, middlewares, sent, ret,
                   before, eager, inputs, log, thrown, hookVars, factoryVars, devTools,
                   comparison, storeObject,
                   stack, reductions>>

\* React renders the second provider
RenderSecond ==
    /\ second.mounted
    /\ second.queue # <<>>
    /\ LET r == ApplyQueue(heap, second.state, second.queue, 1)
       IN  /\ heap' = r.heap
           /\ second' = [second EXCEPT !.state = r.state, !.stateRef = r.state,
                                       !.queue = <<>>]
    /\ UNCHANGED <<pc, stateRef, call, providerVars, hookVars, factoryVars, devTools,
                   comparison, storeObject,
                   stack, reductions>>

NextInstances == Dispatch \/ Render \/ DispatchSecond \/ RenderSecond

SpecInstances == InitInstances /\ [][NextInstances]_vars

\* the objects that make up value v
Graph(h, v) == IF IsObject(v) THEN {v[2]} \cup Descendants(h, v[2]) ELSE {}

FirstInstance == <<stateRef, rendered, queue>>
StatesOfFirst == Graph(heap, stateRef) \cup Graph(heap, rendered)
StatesOfSecond == Graph(heap, second.stateRef) \cup Graph(heap, second.state)

\* C27: two providers of one initiate call never share State: a dispatch to
\* one of them (and the render that follows it) leaves the other's State,
\* every object it is made of, and the base initial State as they were
C27_InstancesNeverShareState ==
    [][/\ FirstInstance' # FirstInstance
          => /\ second' = second
             /\ \A x \in StatesOfSecond \cup Graph(heap, baseState) : heap'[x] = heap[x]
       /\ second' # second
          => /\ FirstInstance' = FirstInstance
             /\ \A x \in StatesOfFirst \cup Graph(heap, baseState) : heap'[x] = heap[x]]_vars

C27_Witness ==
    /\ second.mounted
    /\ initStore = Undef
    /\ second.initStore = Undef
    /\ dispatched = MaxDispatches
    /\ queue = <<>>
    /\ second.queue = <<>>
    /\ rendered # baseState
    /\ second.state # baseState
    /\ ~DeepEq(heap, rendered, second.state)
    /\ DeepEq(heap, baseState, InitialHeap(FALSE, Undef).ref)

(***************************************************************************)
(* SpecStore: the object useReduxLiteStore returns for a State with given  *)
(* slice keys: {...state, ...dispatchers}. A string is the sequence of its *)
(* pieces; a piece is one character ("x", "X") or a run of characters that *)
(* is never split ("partial", "Partial", "dispatch"), so that two strings  *)
(* are equal exactly when their sequences are. toUpperCase turns the       *)
(* first character of a piece into its capital.                            *)
(***************************************************************************)
MaxKeys == 2
MaxKeyLen == 2

Pieces == {"x", "X", "partial"}

\* c.toUpperCase() for the first character of a key
toUpperCase(c) ==
    CASE c = "x" -> "X"
      [] c = "partial" -> "Partial"
      [] OTHER -> c

\* key.charAt(0).toUpperCase() + key.slice(1)
capitalizedKey(key) == <<toUpperCase(key[1])>> \o Tail(key)

\* `dispatch${capitalizedKey}` and `dispatchPartial${capitalizedKey}`
dispatchName(key) == <<"dispatch">> \o capitalizedKey(key)
dispatchPartialName(key) == <<"dispatch", "Partial">> \o capitalizedKey(key)

Dispatcher(key, isPartial) == [kind |-> "dispatcher", type |-> key, isPartial |-> isPartial]
Slice(key) == [kind |-> "slice", type |-> key, isPartial |-> FALSE]

\* Object.keys(state).reduce((acc, key) => {...}, {})
RECURSIVE dispatcherAcc(_, _, _)
dispatcherAcc(acc, keys, i) ==
    IF i > Len(keys) THEN acc
    ELSE LET full == WithProp(acc, dispatchName(keys[i]), Dispatcher(keys[i], FALSE))
             both == WithProp(full, dispatchPartialName(keys[i]), Dispatcher(keys[i], TRUE))
         IN  dispatcherAcc(both, keys, i + 1)

\* { ...context.state, ...dispatchers }
storeOf(keys) ==
    MergeProps([k \in {keys[i] : i \in 1..Len(keys)} |-> Slice(k)],
               dispatcherAcc(EmptyProps, keys, 1))

\* the non-empty strings of at most MaxKeyLen pieces
SliceKeys == UNION {[1..n -> Pieces] : n \in 1..MaxKeyLen}

Distinct(keys) == \A i, j \in 1..Len(keys) : i # j => keys[i] # keys[j]

InitStore ==
    /\ \E keys \in SeqsUpTo(SliceKeys, MaxKeys) :
          /\ Distinct(keys)
          /\ storeObject = [keys |-> keys, props |-> <<>>]
    /\ pc = "ready"
    /\ heap = <<>>
    /\ stateRef = Undef
    /\ call = NoCall
    /\ initialState = Undef
    /\ rendered = Undef
    /\ queue = <<>>
    /\ middlewares = [defined |-> FALSE, list |-> <<>>]
    /\ dispatched = 0
    /\ sent = NoAction
    /\ ret = NoAction
    /\ before = Undef
    /\ eager = Undef
    /\ inputs = <<>>
    /\ log = <<>>
    /\ thrown = FALSE
    /\ subscriber = NoSubscriber
    /\ extra = NoExtra
    /\ stack = <<>>
    /\ reductions = NoReductions
    /\ storeDefinition = Undef
    /\ baseState = Undef
    /\ initStore = Undef
    /\ devTools = NoDevTools
    /\ comparison = NoComparison
    /\ second = NoSecond

\* a component under the provider calls useReduxLiteStore()
UseStore ==
    /\ pc = "ready"
    /\ storeObject' = [storeObject EXCEPT !.props = storeOf(storeObject.keys)]
    /\ pc' = "used"
    /\ UNCHANGED <<heap, stateRef, call, providerVars, hookVars, factoryVars, devTools,
                   comparison, second,
                   stack, reductions>>

SpecStore == InitStore /\ [][UseStore]_vars

Exposes(name, key, isPartial) ==
    /\ name \in DOMAIN storeObject.props
    /\ storeObject.props[name] = Dispatcher(key, isPartial)

\* C28: for every set of distinct non-empty slice keys and every key K of it
\* the store object has a function dispatch<Capitalize(K)> that dispatches
\* {type: K, isPartial: false} and a function dispatchPartial<Capitalize(K)>
\* that dispatches {type: K, isPartial: true}: each key has its own pair
C28_EveryKeyHasItsOwnDispatchers ==
    pc = "used" =>
        \A i \in 1..Len(storeObject.keys) :
            LET K == storeObject.keys[i]
            IN  /\ Exposes(dispatchName(K), K, FALSE)
                /\ Exposes(dispatchPartialName(K), K, TRUE)

(***************************************************************************)
(* SpecUnknown: the reducer called with an action whose type is no key of  *)
(* the State (a caller that goes round the typed dispatchers). The payload *)
(* is a value, the slice read from the store under that key (undefined), a *)
(* literal, or the updater (user, fullStore) => ({a: fullStore.count}).    *)
(***************************************************************************)
Unknown == "other"

ReduceUnknown ==
    /\ pc = "ready"
    /\ Unknown \notin StateKeys(heap, stateRef)
    /\ \E isPartial \in BOOLEAN :
          \/ \E p \in Payloads :
                ReduceWith(Unknown, EvalPayload(heap, stateRef, Unknown, p), isPartial)
          \/ ReduceWith(Unknown, [heap |-> heap, val |-> Fn("fn_fromCount")], isPartial)

SpecUnknown == InitReducer /\ [][ReduceUnknown]_vars

\* the result is a new State with one more slice, which holds the candidate
AdditionalSlice ==
    /\ call.result # call.state
    /\ CallFresh(call.result)
    /\ heap[call.result[2]].kind = "Object"
    /\ StateKeys(heap, call.result) = StateKeys(heap, call.state) \cup {call.action.type}
    /\ CallNew = CallCandidate
    /\ \A k \in StateKeys(heap, call.state) :
          Get(heap, call.result, k) = Get(heap, call.state, k)

\* C29 as stated: an action whose type is no key of the State yields, for
\* every payload, a new State with an additional slice under that key that
\* holds the candidate value
C29_UnknownTypeAlwaysAddsASlice ==
    (pc = "done" /\ call.action.type \notin StateKeys(heap, call.state))
        => AdditionalSlice

\* C29 as amended: such an action yields a new State with an additional
\* slice that holds the candidate value for every payload whose candidate
\* is not undefined, whether partial or not; when the candidate is
\* undefined the reducer returns the State it was given, without the slice
C29_UnknownTypeAddsASliceUnlessUndefined ==
    (pc = "done" /\ call.action.type \notin StateKeys(heap, call.state))
        => IF CallCandidate = Undef
           THEN call.result = call.state
           ELSE AdditionalSlice

C29_Witness ==
    /\ pc = "done"
    /\ call.action.type = Unknown
    /\ call.action.isPartial
    /\ IsRecord(heap, CallCandidate)
    /\ Unknown \notin StateKeys(heap, call.state)
    /\ Unknown \in StateKeys(heap, call.result)
    /\ Get(heap, call.result, Unknown) = CallCandidate

(***************************************************************************)
(* The async dispatchers of the README ("Async Operations") and of the     *)
(* type Dispatchers<T>: dispatchAsync<Key> and dispatchAsyncPartial<Key>.  *)
(***************************************************************************)
dispatchAsyncName(key) == <<"dispatch", "Async">> \o capitalizedKey(key)
dispatchAsyncPartialName(key) == <<"dispatch", "Async", "Partial">> \o capitalizedKey(key)

\* C30: for every slice key k the store object has the functions
\* dispatchAsync<Capitalize(k)> and dispatchAsyncPartial<Capitalize(k)>
\* (which await their argument and then make one full or partial dispatch of
\* k, and make none when the awaited producer rejects)
C30_StoreExposesAsyncDispatchers ==
    pc = "used" =>
        \A i \in 1..Len(storeObject.keys) :
            LET k == storeObject.keys[i]
            IN  /\ dispatchAsyncName(k) \in DOMAIN storeObject.props
                /\ storeObject.props[dispatchAsyncName(k)].kind = "dispatcher"
                /\ dispatchAsyncPartialName(k) \in DOMAIN storeObject.props
                /\ storeObject.props[dispatchAsyncPartialName(k)].kind = "dispatcher"

(***************************************************************************)
(* A middleware that hands on another action than it was given.            *)
(***************************************************************************)
Modifies == \E k \in 1..Declared : middlewares.list[k] = "modifier"

\* C31: when a middleware calls next with another action than it received,
\* the reducer applies the action the innermost middleware handed to next,
\* not the one the caller dispatched, and the State it produces holds the
\* replaced payload
C31_ReducerAppliesTheReplacedAction ==
    \A i \in 1..Len(log) :
        (log[i].ev = "base" /\ Declared > 0) =>
            /\ i < Len(log)
            /\ log[i + 1].ev = "post"
            /\ log[i + 1].mw = Declared
            /\ log[i + 1].action = log[i].action
            /\ Modifies =>
                  /\ log[i].action.payload = Num(MaxNum)
                  /\ Get(heap, log[i].state, log[i].action.type) = Num(MaxNum)
                  /\ queue # <<>> => \E q \in 1..Len(queue) : queue[q] = log[i].action

C31_Witness ==
    /\ dispatched > 0
    /\ Declared = 2
    /\ middlewares.list[1] = "modifier"
    /\ IsObject(sent.payload)
    /\ \E i \in 1..Len(log) :
          /\ log[i].ev = "base"
          /\ log[i].action # sent
          /\ log[i].action.type = sent.type
    /\ Get(heap, stateRef, sent.type) = Num(MaxNum)
    /\ Get(heap, before, sent.type) # Num(MaxNum)

(***************************************************************************)
(* SpecRecursion: one dispatch, call by call. A frame of the stack is a    *)
(* middleware function that has been called and has not returned: which    *)
(* middleware, with which action, and what it waits for ("start": it has   *)
(* just been called; "inApi": it called api.dispatch; "inNext": it called  *)
(* next). The middlewares are the logger, the redispatcher (api.dispatch   *)
(* of a count action when the action's type is 'user') and the "BAD" one   *)
(* of the README, which calls api.dispatch for every action it is given.   *)
(* A call made when MaxDepth frames are on the stack exceeds the engine's  *)
(* stack: a RangeError unwinds every frame, as no middleware here catches. *)
(***************************************************************************)
MaxDepth == 6

RecursionKinds == {"logger", "redispatcher", "unguarded"}

InitRecursion ==
    /\ heap = InitialHeap(FALSE, Undef).heap
    /\ initialState = InitialHeap(FALSE, Undef).ref
    /\ stateRef = initialState
    /\ rendered = initialState
    /\ queue = <<>>
    /\ \E list \in SeqsUpTo(RecursionKinds, MaxMiddlewares) :
          /\ list # <<>>
          /\ middlewares = [defined |-> TRUE, list |-> list]
    /\ dispatched = 0
    /\ sent = NoAction
    /\ ret = NoAction
    /\ before = initialState
    /\ eager = initialState
    /\ inputs = <<>>
    /\ log = <<>>
    /\ thrown = FALSE
    /\ subscriber = NoSubscriber
    /\ extra = NoExtra
    /\ stack = <<>>
    /\ reductions = NoReductions
    /\ storeDefinition = Undef
    /\ baseState = initialState
    /\ initStore = Undef
    /\ devTools = NoDevTools
    /\ comparison = NoComparison
    /\ second = NoSecond
    /\ storeObject = NoStore
    /\ pc = "mounted"
    /\ call = NoCall

Frame(i, action, phase) == [mw |-> i, action |-> action, phase |-> phase]
Top == stack[Len(stack)]
Waiting(phase) == [stack EXCEPT ![Len(stack)].phase = phase]

\* whether the middleware calls api.dispatch when it is given the action
Triggers(kind, action) ==
    \/ kind = "unguarded"
    \/ kind = "redispatcher" /\ action.type = "user"

\* an api.dispatch that enters the chain after the middleware that calls it
reentryAtNext(i) == i + 1

\* middlewareAPI.dispatch calls composedMiddlewareDispatch: the chain from
\* its first function
reentry(i) == 1

\* the top frame calls the j-th function of the chain with action a and
\* waits; past the last middleware the function is baseMiddlewareDispatch,
\* which runs and returns at once
Calls(phase, j, a) ==
    IF j > Declared
    THEN LET ctx == [heap |-> heap, stateRef |-> stateRef, rendered |-> rendered,
                     queue |-> queue, inputs |-> inputs, log |-> log, ret |-> NoAction,
                     thrown |-> FALSE]
             out == internalDispatch(ctx, a)
         IN  /\ heap' = out.heap
             /\ stateRef' = out.stateRef
             /\ queue' = out.queue
             /\ inputs' = out.inputs
             /\ log' = out.log
             /\ reductions' = [based |-> reductions.based + 1,
                               reduced |-> reductions.reduced + 1]
             /\ stack' = Waiting(phase)
             /\ UNCHANGED <<pc, thrown>>
    ELSE IF Len(stack) >= MaxDepth
    THEN /\ stack' = <<>>
         /\ thrown' = TRUE
         /\ pc' = "overflow"
         /\ UNCHANGED <<heap, stateRef, queue, inputs, log, reductions>>
    ELSE /\ stack' = Append(Waiting(phase), Frame(j, a, "start"))
         /\ UNCHANGED <<heap, stateRef, queue, inputs, log, reductions, pc, thrown>>

RecursionFrame == <<call, initialState, rendered, middlewares, dispatched, sent, ret, before,
                    eager, hookVars, factoryVars, devTools, comparison, second, storeObject>>

\* a dispatcher is called: the composed dispatch calls the first middleware
StartDispatch ==
    /\ pc \in {"mounted", "returned"}
    /\ dispatched < MaxDispatches
    /\ \E c \in DispatcherCalls :
          LET payload == EvalPayload(heap, rendered, c.type, c.p)
              action == [type |-> c.type, payload |-> payload.val, isPartial |-> c.isPartial]
          IN  /\ heap' = payload.heap
              /\ sent' = action
              /\ stack' = <<Frame(1, action, "start")>>
    /\ before' = stateRef
    /\ log' = <<>>
    /\ dispatched' = dispatched + 1
    /\ pc' = "dispatching"
    /\ UNCHANGED <<stateRef, call, initialState, rendered, queue, middlewares, ret, eager,
                   inputs, thrown, hookVars, factoryVars, devTools, comparison, second,
                   storeObject, reductions>>

\* the middleware on top has just been called and calls api.dispatch
Enter ==
    /\ pc = "dispatching"
    /\ Top.phase = "start"
    /\ Triggers(middlewares.list[Top.mw], Top.action)
    /\ Calls("inApi", reentry(Top.mw), Redispatched)
    /\ UNCHANGED RecursionFrame

\* the middleware on top calls next(action): at once, or when its
\* api.dispatch has returned
CallNext ==
    /\ pc = "dispatching"
    /\ \/ Top.phase = "inApi"
       \/ Top.phase = "start" /\ ~Triggers(middlewares.list[Top.mw], Top.action)
    /\ Calls("inNext", Top.mw + 1, Top.action)
    /\ UNCHANGED RecursionFrame

\* the middleware on top returns what its next returned
Return ==
    /\ pc = "dispatching"
    /\ Top.phase = "inNext"
    /\ stack' = SubSeq(stack, 1, Len(stack) - 1)
    /\ pc' = IF Len(stack) = 1 THEN "returned" ELSE pc
    /\ ret' = IF Len(stack) = 1 THEN sent ELSE ret
    /\ UNCHANGED <<heap, stateRef, call, initialState, rendered, queue, middlewares,
                   dispatched, sent, before, eager, inputs, log, thrown, hookVars,
                   factoryVars, devTools, comparison, second, storeObject, reductions>>

Running == Enter \/ CallNext \/ Return

NextRecursion == StartDispatch \/ Enter \/ CallNext \/ Return

SpecRecursion == InitRecursion /\ [][NextRecursion]_vars

\* a call that has been made runs: nothing else happens during a dispatch
SpecRecursionFair == SpecRecursion /\ WF_vars(Running)

Unguarded == \E k \in 1..Declared : middlewares.list[k] = "unguarded"

LaterOverrides ==
    {[user |-> "nested", count |-> "absent", task |-> "absent", list |-> "absent"],
     [user |-> "absent", count |-> "number", task |-> "object", list |-> "absent"]}

OverrideChains == {<<>>, <<"modifier">>}

InitOverride ==
    /\ baseState = InitialHeap(FALSE, Undef).ref
    /\ \E given \in BOOLEAN :
          LET o == IF given THEN Override(InitialHeap(FALSE, Undef).heap, InlineOverride)
                   ELSE [heap |-> InitialHeap(FALSE, Undef).heap, ref |-> Undef]
              final == finalInitialStateOf(o.heap, baseState, o.ref)
          IN  /\ initStore = o.ref
              /\ heap = final.heap
              /\ initialState = final.ref
    /\ devTools = NoDevTools
    /\ \E list \in OverrideChains :
          middlewares = [defined |-> list # <<>>, list |-> list]
    /\ stateRef = initialState
    /\ rendered = initialState
    /\ queue = <<>>
    /\ dispatched = 0
    /\ sent = NoAction
    /\ ret = NoAction
    /\ before = initialState
    /\ eager = initialState
    /\ inputs = <<>>
    /\ log = <<>>
    /\ thrown = FALSE
    /\ subscriber = NoSubscriber
    /\ extra = NoExtra
    /\ stack = <<>>
    /\ reductions = NoReductions
    /\ storeDefinition = Undef
    /\ comparison = NoComparison
    /\ second = NoSecond
    /\ storeObject = NoStore
    /\ pc = "mounted"
    /\ call = NoCall

\* a useReducer that starts again from the initial state it is handed
useReducerReseeded(current, initialArg) == initialArg

\* useReducer(reducer, initialState) in a render after the first: the
\* initial state is not looked at, the hook holds its own state
useReducerState(current, initialArg) == current

\* the provider's parent renders again with another initStore prop, or
\* without one: finalInitialState is computed again and handed to
\* useReducer, which applies what is queued to the state it holds
RerenderOverride ==
    /\ devTools.rerenders < MaxRerenders
    /\ \E given \in BOOLEAN, later \in LaterOverrides :
          LET o == IF given THEN Override(heap, later)
                   ELSE [heap |-> heap, ref |-> Undef]
              final == IF o.ref # initStore
                       THEN finalInitialStateOf(o.heap, baseState, o.ref)
                       ELSE [heap |-> o.heap, ref |-> initialState]
              r == ApplyQueue(final.heap, useReducerState(rendered, final.ref), queue, 1)
              dt == commitEffects(devTools, rendered, r.state, initialState, final.ref)
          IN  /\ heap' = r.heap
              /\ initStore' = o.ref
              /\ initialState' = final.ref
              /\ rendered' = r.state
              /\ stateRef' = r.state
              /\ devTools' = [dt EXCEPT !.rerenders = @ + 1]
    /\ reductions' = [reductions EXCEPT !.reduced = @ + Len(queue)]
    /\ eager' = stateRef
    /\ queue' = <<>>
    /\ inputs' = <<>>
    /\ UNCHANGED <<pc, call, middlewares, dispatched, sent, ret, before, log, thrown,
                   hookVars, storeDefinition, baseState, otherVars>>

NextOverride == Dispatch \/ Render \/ RerenderOverride

SpecOverride == InitOverride /\ [][NextOverride]_vars

\* C33: a render of the provider with another override than the one the
\* binding was created with leaves the State as it is: the rendered State
\* and the State getState reports are, after it, what getState reported
\* before it, with every update dispatched so far, and the very same object
\* when nothing was waiting to be rendered
C33_LaterOverrideLeavesTheStateAlone ==
    [][devTools'.rerenders # devTools.rerenders =>
          /\ stateRef' = rendered'
          /\ DeepEq(heap', rendered', stateRef)
          /\ queue = <<>> => rendered' = rendered]_vars

C33_Witness ==
    /\ devTools.rerenders > 0
    /\ dispatched > 0
    /\ queue = <<>>
    /\ IsObject(initStore)
    /\ "task" \in DOMAIN OwnProps(heap, initStore)
    /\ initialState # baseState
    /\ ~DeepEq(heap, rendered, initialState)
    /\ ~DeepEq(heap, rendered, baseState)
    /\ Get(heap, initialState, "count") = Num(MaxNum)
    /\ Get(heap, rendered, "count") # Num(MaxNum)

(***************************************************************************)
(* SpecSymmetric: isEqual called on two values and then on the same two    *)
(* values in the other order.                                              *)
(***************************************************************************)
\* isEqual(objB, objA), after isEqual(objA, objB)
CompareBack ==
    /\ pc = "compared"
    /\ comparison' = [objA |-> comparison.objB,
                      objB |-> comparison.objA,
                      returned |-> isEqual(heap, comparison.objB, comparison.objA)]
    /\ pc' = "swapped"
    /\ UNCHANGED <<heap, stateRef, call, providerVars, hookVars, factoryVars, devTools,
                   second, storeObject, stack, reductions>>

NextSymmetric == Compare \/ CompareBack

SpecSymmetric == InitEqual /\ [][NextSymmetric]_vars

\* C34: isEqual(b, a) returns what isEqual(a, b) returned, for every two
\* values, also ones in which an object is reached by more than one path
C34_IsEqualIsSymmetric ==
    [][(pc = "compared" /\ pc' = "swapped") =>
          comparison'.returned = comparison.returned]_vars

(***************************************************************************)
(* SpecCollections: the reducer on a State whose slice holds a record, an  *)
(* array, a Date, a Map or a Set, given another such value as the payload. *)
(* The entries of a Map and the members of a Set are no properties of the  *)
(* object: they are in its internal slot, as the time value of a Date is.  *)
(***************************************************************************)
\* new Map([['a', n]])
MapOf(n) == [kind |-> "Map", props |-> EmptyProps, internal |-> n]
\* new Set([n])
SetOf(n) == [kind |-> "Set", props |-> EmptyProps, internal |-> n]

Collections ==
    << Obj([k \in {"a"} |-> Num(0)]),
       Obj([k \in {"a"} |-> Num(MaxNum)]),
       Arr([k \in {"0"} |-> Num(0)]),
       Arr([k \in {"0"} |-> Num(MaxNum)]),
       DateAt(0),
       DateAt(MaxNum),
       MapOf(0),
       MapOf(MaxNum),
       SetOf(0),
       SetOf(MaxNum),
       MapOf(0),
       SetOf(0) >>

InitCollections ==
    /\ \E i \in 1..Len(Collections) :
          /\ heap = Append(Collections,
                           Obj([k \in {"user", "count"} |->
                                   IF k = "user" THEN Ref(i) ELSE Num(0)]))
          /\ stateRef = Ref(Len(heap))
    /\ pc = "ready"
    /\ call = NoCall
    /\ initialState = stateRef
    /\ rendered = stateRef
    /\ queue = <<>>
    /\ middlewares = [defined |-> FALSE, list |-> <<>>]
    /\ dispatched = 0
    /\ sent = NoAction
    /\ ret = NoAction
    /\ before = stateRef
    /\ eager = stateRef
    /\ inputs = <<>>
    /\ log = <<>>
    /\ thrown = FALSE
    /\ subscriber = NoSubscriber
    /\ extra = NoExtra
    /\ stack = <<>>
    /\ reductions = NoReductions
    /\ storeDefinition = Undef
    /\ baseState = initialState
    /\ initStore = Undef
    /\ devTools = NoDevTools
    /\ comparison = NoComparison
    /\ second = NoSecond
    /\ storeObject = NoStore

\* dispatchUser(value) and dispatchPartialUser(value)
ReduceCollection ==
    /\ pc = "ready"
    /\ \E j \in 1..Len(Collections), isPartial \in BOOLEAN :
          ReduceWith("user", [heap |-> heap, val |-> Ref(j)], isPartial)

SpecCollections == InitCollections /\ [][ReduceCollection]_vars

\* what the reducer compares with the current slice: the merge of the slice
\* and the payload where it merges, the payload elsewhere
OldSlice == Get(heap, call.state, call.action.type)
Merges ==
    /\ call.action.isPartial
    /\ IsObject(OldSlice)
    /\ ~IsArray(heap, OldSlice)
    /\ IsObject(call.action.payload)
SameContentAsCandidate ==
    IF Merges
    THEN /\ heap[OldSlice[2]].kind = "Object"
         /\ DeepEqProps(heap, OwnProps(heap, OldSlice),
                        MergeProps(OwnProps(heap, OldSlice),
                                   OwnProps(heap, call.action.payload)))
    ELSE DeepEq(heap, OldSlice, call.action.payload)
IsCollection(v) == IsObject(v) /\ heap[v[2]].kind \in {"Map", "Set"}

\* C35: when the reducer returns the State it was given, the value it was
\* to put into the slice has the content the slice has already, whatever
\* the slice holds: a record, an array, a Date, a Map or a Set
C35_NoOpDropsNoChange ==
    (pc = "done" /\ call.result = call.state) => SameContentAsCandidate

\* the same for slices and payloads that are no Map and no Set
C35_OwnProperties ==
    (pc = "done" /\ call.result = call.state
        /\ ~IsCollection(OldSlice) /\ ~IsCollection(call.action.payload))
        => SameContentAsCandidate

\* C36: a call of the reducer with a payload that is no function leaves
\* every object that was there before the call as it was (the State it was
\* given, that State's slices, what those hold) and leaves the payload as
\* the caller built it; what it makes, it makes as new objects
C36_ReducerLeavesItsInputAlone ==
    [][(pc = "ready" /\ pc' = "done" /\ ~IsFunction(call'.action.payload)) =>
          /\ Len(heap') >= Len(heap)
          /\ \A i \in 1..Len(heap) : heap'[i] = heap[i]
          /\ call'.state = stateRef
          /\ \E p \in Payloads :
                LET given == EvalPayload(heap, stateRef, call'.action.type, p)
                IN  /\ given.val = call'.action.payload
                    /\ SubSeq(heap', 1, call'.base) = given.heap]_vars

C36_Witness ==
    /\ pc = "done"
    /\ IsObject(call.action.payload)
    /\ call.action.payload[2] > call.state[2]
    /\ call.action.isPartial
    /\ call.action.type = "user"
    /\ call.result # call.state
    /\ Get(heap, call.state, "user") # Get(heap, call.result, "user")
    /\ Get(heap, call.result, "user") # call.action.payload
    /\ ~DeepEq(heap, call.state, call.result)
    /\ Get(heap, Get(heap, call.state, "user"), "b") = Ref(1)

\* C37: the State getState reports is at every moment the State the next
\* render commits (the State of the last render with the waiting actions
\* applied by useReducer), and when no action waits it is the rendered
\* State itself
Commits == ApplyQueue(heap, rendered, queue, 1)

C37_GetStateAgreesWithTheRender ==
    /\ DeepEq(Commits.heap, stateRef, Commits.state)
    /\ queue = <<>> => stateRef = rendered

C37_Witness ==
    /\ Len(queue) = 2
    /\ queue[1].type = queue[2].type
    /\ IsFunction(queue[2].payload)
    /\ stateRef # rendered
    /\ stateRef # Commits.state
    /\ ~DeepEq(heap, stateRef, rendered)
    /\ LET first == reducer(heap, rendered, queue[1])
           last == reducer(heap, rendered, queue[2])
       IN  /\ ~DeepEq(first.heap, stateRef, first.state)
           /\ ~DeepEq(last.heap, stateRef, last.state)

(***************************************************************************)
(* SpecFresh: a provider and under it a component that calls useSelector   *)
(* with the default equality and a selector that builds its result at      *)
(* every call. A render that React ends with "Too many re-renders." takes  *)
(* the tree down: nothing is rendered after it.                            *)
(***************************************************************************)
InitFresh ==
    /\ initialState = InitialHeap(FALSE, Undef).ref
    /\ \E selector \in FreshSelectors :
          LET mount == RenderComponent(InitialHeap(FALSE, Undef).heap, Context(initialState),
                                       [NoSubscriber EXCEPT !.mounted = TRUE,
                                                            !.selector = selector,
                                                            !.equalityFn = "isEqual"], 1)
          IN  /\ heap = mount.heap
              /\ subscriber = mount.comp
    /\ extra = NoExtra
    /\ stack = <<>>
    /\ reductions = NoReductions
    /\ storeDefinition = Undef
    /\ baseState = initialState
    /\ initStore = Undef
    /\ devTools = NoDevTools
    /\ comparison = NoComparison
    /\ second = NoSecond
    /\ storeObject = NoStore
    /\ stateRef = initialState
    /\ rendered = initialState
    /\ queue = <<>>
    /\ middlewares = [defined |-> FALSE, list |-> <<>>]
    /\ dispatched = 0
    /\ sent = NoAction
    /\ ret = NoAction
    /\ before = initialState
    /\ eager = initialState
    /\ inputs = <<>>
    /\ log = <<>>
    /\ thrown = FALSE
    /\ pc = "mounted"
    /\ call = NoCall

\* React renders the provider and the component under it
RenderSubscribed ==
    /\ subscriber.error = ""
    /\ Render

NextFresh == Dispatch \/ RenderSubscribed

SpecFresh == InitFresh /\ [][NextFresh]_vars

Passes == subscriber'.renders - subscriber.renders

\* C38, as claimed: after a State change the render of the component settles
\* after finitely many passes, the cached value replaced at most once,
\* whatever the selector builds, a result with a function in it included
C38_EveryFreshSelectorSettles ==
    [][StateChanged =>
          /\ subscriber'.error = ""
          /\ Passes <= 2]_vars

\* C38, amended: the render settles, the cached value replaced at most once,
\* when the selector builds its result of the data of the State; when the
\* result holds a function made by the call, every pass replaces the cached
\* value and React ends the render with "Too many re-renders."
C38_DataSettlesFunctionsDoNot ==
    [][StateChanged =>
          IF subscriber.selector = "methods"
          THEN /\ subscriber'.error = "Too many re-renders."
               /\ Passes = MaxPasses
          ELSE /\ subscriber'.error = ""
               /\ Passes <= 2
               /\ DeepEq(Derived.heap, subscriber'.cell.val, Derived.val)]_vars

C38_Witness ==
    /\ subscriber.mounted
    /\ subscriber.selector = "derived"
    /\ subscriber.error = ""
    /\ subscriber.renders = 3
    /\ queue = <<>>
    /\ rendered # initialState
    /\ subscriber.returned = subscriber.cell.val
    /\ IsObject(subscriber.returned)
    /\ subscriber.returned[2] > rendered[2]
    /\ Get(heap, subscriber.returned, "b") = Num(1)
    /\ Get(heap, subscriber.returned, "a") = Num(0)

\* C39: the reducer, and with it an updater function that is the payload,
\* has been evaluated once for each action that reached the base dispatch
C39_ReducerRunsOncePerAction ==
    reductions.reduced = reductions.based
====
